---------------------------- MODULE Spec2Model ----------------------------
(***************************************************************************)
(* A model of the three scenario simulators of the repository:             *)
(*   src/modules/floodsim_module.py    FloodSimulator                      *)
(*   src/modules/thermalsim_module.py  ThermalComfortSimulator             *)
(*   src/modules/windsim_module.py     WindSimulator                       *)
(*                                                                         *)
(* Numbers.  The code computes in Python floats; the model computes in     *)
(* integers of a stated unit, exactly (no rounding happens before the      *)
(* code itself rounds).  Inputs are finite numbers.                        *)
(*   rainfall              mm/h                                            *)
(*   duration              h                                               *)
(*   total excess          0.01 mm            (25.5 mm  = 2550)            *)
(*   depth                 0.00001 m          (0.204 m  = 20400)           *)
(*   flooded area percent  0.001 %            (30.6 %   = 30600)           *)
(*   flooded area          m2  (= 1e-6 km2)                                *)
(*   latitude, longitude   0.000001 degree                                 *)
(*   elevation             0.1 m                                           *)
(*   velocity              0.01 m/s                                        *)
(*   wind speed            0.1 m/s given, 0.000001 m/s computed            *)
(*   wind direction        degree                                          *)
(*   wind pressure         1/80000 Pa                                      *)
(*   air temperature       0.1 C given, 0.000001 C computed                *)
(*   humidity              percent                                         *)
(*   clo, met              0.01                                            *)
(*   pmv                   0.000001 computed, 0.01 returned                *)
(*   ppd                   0.001 % computed, 0.1 % returned                *)
(* Where the exact value lies midway between two results of a rounding,    *)
(* the float of the code may fall on either side of it; the model takes    *)
(* the even one.                                                           *)
(* round(x, k) of the code is RoundDiv: to the nearest, ties to even.      *)
(*                                                                         *)
(* Strings (scenario names) are sequences of one-character strings.        *)
(***************************************************************************)
EXTENDS Integers, Sequences, FiniteSets, TLC

VARIABLES
    hashSalt,   \* the process's string-hash randomisation (fixed per process)
    rng,        \* numpy's process-wide generator: [seed, pos]
    clock,      \* datetime.now()
    sims,       \* the simulator objects constructed so far, by class
    last,       \* the latest call: operation, arguments, locals, outcome
    ref,        \* an earlier call, kept for comparison with the latest
    thr         \* the threads of a concurrent field generation

vars == <<hashSalt, rng, clock, sims, last, ref, thr>>

-----------------------------------------------------------------------------
(* Arithmetic helpers *)

Min(a, b) == IF a <= b THEN a ELSE b
Max(a, b) == IF a >= b THEN a ELSE b
Abs(a) == IF a < 0 THEN -a ELSE a

\* Python's round(n/d): nearest integer, ties to the even one (d > 0).
RoundDiv(n, d) ==
    LET q == n \div d
        r == n % d
    IN  IF 2 * r < d THEN q
        ELSE IF 2 * r > d THEN q + 1
        ELSE IF q % 2 = 0 THEN q ELSE q + 1

\* Python's int(n/d): truncation toward zero (d > 0).
TruncDiv(n, d) == IF n >= 0 THEN n \div d ELSE -((-n) \div d)

-----------------------------------------------------------------------------
(* Exceptions and configurations *)

\* what a call returns: a value, or the exception it raised
Returned(v) == [raised |-> "none", value |-> v]
Raised(e) == [raised |-> e]

LocationFields == {"area_km2", "center_lat", "center_lng", "elevation_avg"}

\* config['location'] of the repository's example: 5.0 km2, 54.10 N, 22.95 E, 163.0 m
FullLocation ==
    [area_km2 |-> 5, center_lat |-> 54100000, center_lng |-> 22950000,
     elevation_avg |-> 1630]

\* the location without one field
Lacking(f) == [k \in LocationFields \ {f} |-> FullLocation[k]]

\* config['location'][k] is defined
HasKey(location, k) == k \in DOMAIN location

-----------------------------------------------------------------------------
(* The process-wide generator, numpy.random *)

\* Seeds are taken modulo 2**31 in the code; the model's seed space is smaller.
SeedSpace == 8
\* The raw values the stream takes.
DrawSpace == 60

\* the k-th raw value of the stream seeded with s
Raw(s, k) == (s * 37 + k * 11 + s * k * 3 + 5) % DrawSpace

\* a generator freshly seeded with seed_value
seed(seed_value) == [seed |-> seed_value, pos |-> 0]

\* np.random.seed(seed_value) without effect: the generator stays as it is
np_random_seed_ignored(g, seed_value) == g

\* np.random.seed(seed_value) that keeps the position of the stream
np_random_seed_shifted(g, seed_value) == [seed |-> seed_value, pos |-> g.pos]

\* np.random.seed(seed_value) on the process-wide generator g
np_random_seed(g, seed_value) == seed(seed_value)

\* one draw: the value and the generator after it
Draw(g) == [raw |-> Raw(g.seed, g.pos), rng |-> [g EXCEPT !.pos = @ + 1]]

\* n draws that leave the generator where it was
Advance_nowhere(g, n) == g

\* the generator after n draws
Advance(g, n) == [g EXCEPT !.pos = @ + n]

\* normal(0, sigma): the deviate in tenths of sigma
NormalZ(raw) == ((raw % 7) - 3) * 5
\* exponential(scale): the deviate in hundredths of scale
ExpE(raw) == <<0, 50, 100, 200, 400>>[(raw % 5) + 1]
\* uniform(a, b): the deviate in quarters of b - a, below 1
UniformQ(raw) == raw % 4
\* choice(items, p): the item whose cumulative weight (percent) first exceeds
\* the deviate
ChoiceU(raw) == (raw % 20) * 5
RECURSIVE ChoiceIndex(_, _, _)
ChoiceIndex(weights, u, i) ==
    IF i >= Len(weights) \/ u < weights[i] THEN i
    ELSE ChoiceIndex(weights, u - weights[i], i + 1)
choice(items, weights, raw) == items[ChoiceIndex(weights, ChoiceU(raw), 1)]

-----------------------------------------------------------------------------
(* Scenario names and hash() *)

\* str.lower() on the alphabet of the model
LowerChar(c) == IF c = "A" THEN "a" ELSE IF c = "B" THEN "b" ELSE c
\* a name left as it is
lower_unchanged(s) == s
lower(s) == [i \in 1..Len(s) |-> LowerChar(s[i])]

\* str.replace(old, new) for a one-character old; new is a string
RECURSIVE replace(_, _, _)
replace(s, old, new) ==
    IF s = <<>> THEN <<>>
    ELSE (IF Head(s) = old THEN new ELSE <<Head(s)>>) \o replace(Tail(s), old, new)

CharCode(c) ==
    CASE c = "A" -> 1 [] c = "B" -> 2 [] c = "a" -> 3 [] c = "b" -> 4
      [] c = " " -> 5 [] c = "_" -> 6 [] c = "-" -> 7 [] OTHER -> 8

\* The values hash() of a string takes: -HashSpace .. HashSpace - 1.
HashSpace == 16

\* hash(s) of a string: keyed by the process's salt, signed, 0 for ""
RECURSIVE HashFold(_, _, _)
HashFold(s, salt, h) ==
    IF s = <<>> THEN h
    ELSE HashFold(Tail(s), salt, (h * 5 + CharCode(Head(s)) * (salt + 3) + salt) % (2 * HashSpace))
hash(s, salt) == IF s = <<>> THEN 0 ELSE HashFold(s, salt, 1) - HashSpace

-----------------------------------------------------------------------------
(* FloodSimulator *)

\* __init__: KeyError when a field it reads is missing
Flood_init(config) ==
    IF ~HasKey(config, "area_km2") \/ ~HasKey(config, "elevation_avg")
    THEN Raised("KeyError")
    ELSE Returned(
        [config |-> config,
         area_km2 |-> config["area_km2"],
         base_elevation |-> config["elevation_avg"],
         urban_coverage |-> 25,        \* 0.25, percent
         drainage_capacity |-> 40,     \* mm/h
         infiltration_rate |-> 8,      \* mm/h
         runoff_coefficient |-> 75,    \* 0.75, hundredths
         manning_n |-> 35,             \* 0.035, thousandths
         min_flow_depth |-> 1000,      \* 0.01 m, in 0.00001 m
         max_flow_velocity |-> 500])   \* 5.0 m/s, in 0.01 m/s

\* the 3.0 m ceiling of calculate_flood_depths, in 0.00001 m
DepthCeiling == 300000
\* the 100 % ceiling of calculate_flood_depths, in 0.001 %
AreaCeiling == 100000

risk_levels == <<"MINIMALNE", "NISKIE", "UMIARKOWANE", "WYSOKIE", "KRYTYCZNE">>

\* calculate_effective_rainfall with the infiltration forgotten in the excess
calculate_effective_rainfall_no_infiltration(self, rainfall_mm_h, duration_h) ==
    LET effective_rainfall == Max(0, rainfall_mm_h - self.infiltration_rate)
        excess_rainfall == Max(0, rainfall_mm_h - self.drainage_capacity)
    IN  [effective_rainfall |-> effective_rainfall,
         excess_rainfall |-> excess_rainfall,
         total_excess_mm |-> excess_rainfall * duration_h * self.runoff_coefficient]

\* calculate_effective_rainfall with the operands of the excess swapped
calculate_effective_rainfall_swapped(self, rainfall_mm_h, duration_h) ==
    LET effective_rainfall == Max(0, rainfall_mm_h - self.infiltration_rate)
        excess_rainfall == Max(0, self.drainage_capacity - effective_rainfall)
    IN  [effective_rainfall |-> effective_rainfall,
         excess_rainfall |-> excess_rainfall,
         total_excess_mm |-> excess_rainfall * duration_h * self.runoff_coefficient]

\* calculate_effective_rainfall with a runoff coefficient of 0.57
calculate_effective_rainfall_runoff(self, rainfall_mm_h, duration_h) ==
    LET effective_rainfall == Max(0, rainfall_mm_h - self.infiltration_rate)
        excess_rainfall == Max(0, effective_rainfall - self.drainage_capacity)
    IN  [effective_rainfall |-> effective_rainfall,
         excess_rainfall |-> excess_rainfall,
         total_excess_mm |-> excess_rainfall * duration_h * 57]

\* (effective_rainfall [mm/h], excess_rainfall [mm/h], total_excess_mm [0.01 mm])
calculate_effective_rainfall(self, rainfall_mm_h, duration_h) ==
    LET effective_rainfall == Max(0, rainfall_mm_h - self.infiltration_rate)
        excess_rainfall == Max(0, effective_rainfall - self.drainage_capacity)
        total_excess_mm == excess_rainfall * duration_h * self.runoff_coefficient
    IN  [effective_rainfall |-> effective_rainfall,
         excess_rainfall |-> excess_rainfall,
         total_excess_mm |-> total_excess_mm]

\* calculate_flood_depths without the 3.0 m ceiling
calculate_flood_depths_no_ceiling(total_excess_mm) ==
    IF total_excess_mm <= 0
    THEN [max_depth |-> 0, flooded_area_pct |-> 0]
    ELSE [max_depth |-> total_excess_mm * 8,
          flooded_area_pct |-> Min(AreaCeiling, total_excess_mm * 12)]

\* (max_depth [0.00001 m], flooded_area_pct [0.001 %]) of total_excess_mm [0.01 mm]:
\* total/100 * 0.8 m is total * 8 units, total * 1.2 % is total * 12 units.
calculate_flood_depths(total_excess_mm) ==
    IF total_excess_mm <= 0
    THEN [max_depth |-> 0, flooded_area_pct |-> 0]
    ELSE [max_depth |-> Min(total_excess_mm * 8, DepthCeiling),
          flooded_area_pct |-> Min(AreaCeiling, total_excess_mm * 12)]

\* assess_flood_risk with <= for <
assess_flood_risk_inclusive(max_depth) ==
    IF max_depth <= 5000 THEN risk_levels[1]
    ELSE IF max_depth <= 15000 THEN risk_levels[2]
    ELSE IF max_depth <= 40000 THEN risk_levels[3]
    ELSE IF max_depth <= 80000 THEN risk_levels[4]
    ELSE risk_levels[5]

\* assess_flood_risk with WYSOKIE from 0.60 m
assess_flood_risk_high_late(max_depth) ==
    IF max_depth < 5000 THEN risk_levels[1]
    ELSE IF max_depth < 15000 THEN risk_levels[2]
    ELSE IF max_depth < 60000 THEN risk_levels[3]
    ELSE IF max_depth < 80000 THEN risk_levels[4]
    ELSE risk_levels[5]

\* max_depth in 0.00001 m: 0.05 m = 5000, 0.15 m = 15000, 0.40 m = 40000, 0.80 m = 80000
assess_flood_risk(max_depth) ==
    IF max_depth < 5000 THEN risk_levels[1]
    ELSE IF max_depth < 15000 THEN risk_levels[2]
    ELSE IF max_depth < 40000 THEN risk_levels[3]
    ELSE IF max_depth < 80000 THEN risk_levels[4]
    ELSE risk_levels[5]

\* risk_score of simulate_scenario: len(levels[:levels.index(risk_level) + 1])
risk_score(risk_level) ==
    LET idx == CHOOSE i \in 1..Len(risk_levels) :
                   /\ risk_levels[i] = risk_level
                   /\ \A j \in 1..(i - 1) : risk_levels[j] # risk_level
    IN  Len(SubSeq(risk_levels, 1, idx))

\* calculate_building_impact without the min(..., total_buildings)
calculate_building_impact_uncapped(self, flooded_area_m2) ==
    LET total_buildings == (self.area_km2 * 350 * self.urban_coverage) \div 100
        buildings_at_risk == (flooded_area_m2 * 21) \div 100000
    IN  [total |-> total_buildings,
         at_risk |-> buildings_at_risk,
         affected_population |-> buildings_at_risk * 3]

\* flooded_area_m2 in m2 (1e-6 km2).
\* total = int(area * 350 * 0.25); at_risk = min(int(flooded_km2 * 350 * 0.6), total)
calculate_building_impact(self, flooded_area_m2) ==
    LET total_buildings == (self.area_km2 * 350 * self.urban_coverage) \div 100
        buildings_at_risk == Min((flooded_area_m2 * 21) \div 100000, total_buildings)
    IN  [total |-> total_buildings,
         at_risk |-> buildings_at_risk,
         affected_population |-> buildings_at_risk * 3]

\* int(at_risk * 50000 + volume * 10); total_volume_x10 is volume * 10 cut to
\* an integer, which the int() of the sum cuts as well (both terms are >= 0)
calculate_economic_damage(buildings_at_risk, total_volume_x10) ==
    buildings_at_risk * 50000 + total_volume_x10

\* round(sqrt(x)) for 4x = num4 / den: the n with (2n-1)^2 <= 4x < (2n+1)^2,
\* a tie going to the even neighbour
RoundSqrt(num4, den) ==
    LET n == CHOOSE k \in 0..600 :
                 /\ (k = 0 \/ (2 * k - 1) * (2 * k - 1) * den <= num4)
                 /\ num4 < (2 * k + 1) * (2 * k + 1) * den
    IN  IF n > 0 /\ (2 * n - 1) * (2 * n - 1) * den = num4 /\ n % 2 = 1
        THEN n - 1 ELSE n

\* One pass of the loop of generate_flood_zones: zone i (from 1) drawn from g.
\* depth runs in 0.0000001 m here: max(0.02, exponential(max_depth * 0.6)) is
\* max(200000, max_depth * 30 * (e / 50)) for the deviate e in hundredths.
flood_zone(self, i, g, max_depth, center_lat, center_lng) ==
    LET d1 == Draw(g)
        lat == center_lat + 800 * NormalZ(d1.raw)
        d2 == Draw(d1.rng)
        lng == center_lng + 1200 * NormalZ(d2.raw)
        d3 == IF max_depth > 0 THEN Draw(d2.rng) ELSE [raw |-> 0, rng |-> d2.rng]
        depth == IF max_depth > 0
                 THEN Min(Max(200000, max_depth * 30 * (ExpE(d3.raw) \div 50)),
                          max_depth * 100)
                 ELSE 200000
        flow_velocity == IF depth > 0
                         THEN Min(RoundSqrt(9 * depth, 1000), self.max_flow_velocity)
                         ELSE 0
        d4 == Draw(d3.rng)
        elevation == self.base_elevation + 2 * NormalZ(d4.raw)
        d5 == Draw(d4.rng)
    IN  [zone |-> [lat |-> lat,
                   lng |-> lng,
                   depth_m |-> RoundDiv(depth, 10000),
                   elevation_m |-> elevation,
                   flow_velocity |-> flow_velocity,
                   zone_id |-> i,
                   surface_type |-> choice(<<"road", "sidewalk", "green", "plaza">>,
                                           <<40, 25, 20, 15>>, d5.raw)],
         rng |-> d5.rng]

\* the draws one pass of the loop takes
flood_zone_draws(max_depth) == IF max_depth > 0 THEN 5 ELSE 4

\* the loop of generate_flood_zones from the generator g: pass i starts after
\* the draws of the passes before it
flood_zones_loop(self, num_zones, g, max_depth, center_lat, center_lng) ==
    [zones |-> [i \in 1..num_zones |->
                   flood_zone(self, i, Advance(g, (i - 1) * flood_zone_draws(max_depth)),
                              max_depth, center_lat, center_lng).zone],
     rng |-> Advance(g, num_zones * flood_zone_draws(max_depth))]

\* seed of generate_flood_zones: abs(hash(scenario_name)) % (2**31)
flood_seed_value(scenario_name, salt) == Abs(hash(scenario_name, salt)) % SeedSpace

\* num_zones without its minimum of 5
flood_num_zones_no_minimum(flooded_area_pct) ==
    Min(50, TruncDiv(flooded_area_pct * 8, 10000))

\* num_zones = max(5, min(50, int(flooded_area_pct * 0.8)))
flood_num_zones(flooded_area_pct) ==
    Max(5, Min(50, TruncDiv(flooded_area_pct * 8, 10000)))

\* generate_flood_zones: the list and the generator after it, or the KeyError
\* of config['location']['center_lat'], raised after the reseed
generate_flood_zones(self, g, scenario_name, max_depth, flooded_area_pct, salt) ==
    LET g1 == np_random_seed(g, flood_seed_value(scenario_name, salt))
        num_zones == flood_num_zones(flooded_area_pct)
    IN  IF ~HasKey(self.config, "center_lat") \/ ~HasKey(self.config, "center_lng")
        THEN [out |-> Raised("KeyError"), rng |-> g1]
        ELSE LET r == flood_zones_loop(self, num_zones, g1, max_depth,
                                       self.config["center_lat"],
                                       self.config["center_lng"])
             IN  [out |-> Returned(r.zones), rng |-> r.rng]

\* floor(a * b / c) and (a * b) mod c for a, b >= 0, without forming a * b
MulDivParts(a, b, c) ==
    LET qa == a \div c
        ra == a % c
        qb == b \div c
        rb == b % c
    IN  [q |-> qa * qb * c + qa * rb + ra * qb + (ra * rb) \div c,
         r |-> (ra * rb) % c]

\* The block "if detailed_output:" at the end of simulate_scenario
\* (unreachable without center_lat and center_lng: generate_flood_zones raised)
flood_detailed_no_visualization(self, result, flood_zones) ==
    result @@ [flood_zones |-> flood_zones]

flood_detailed(self, result, flood_zones) ==
    result @@
    [flood_zones |-> flood_zones,
     visualization |->
         [center_lat |-> self.config["center_lat"],
          center_lng |-> self.config["center_lng"],
          zoom_level |-> 14,
          color_scale |-> "Blues",
          max_marker_size |-> 20]]

\* simulate_scenario of FloodSimulator, called when the generator is g and the
\* clock reads now: what it returns or raises, the generator after it, and its
\* local variables
Flood_simulate_scenario(self, rainfall_mm_h, duration_h, scenario_name, detailed_output, g, now, salt) ==
    LET rain == calculate_effective_rainfall(self, rainfall_mm_h, duration_h)
        depths == calculate_flood_depths(rain.total_excess_mm)
        max_depth == depths.max_depth
        flooded_area_pct == depths.flooded_area_pct
        \* (flooded_area_pct / 100) * area_km2, in m2
        flooded_area_m2 == flooded_area_pct * self.area_km2 * 10
        risk_level == assess_flood_risk(max_depth)
        building_impact == calculate_building_impact(self, flooded_area_m2)
        \* flooded_area_km2 * 1e6 * (max_depth * 0.4), times 10: m2 * depth / 25000
        volume == MulDivParts(flooded_area_m2, max_depth, 25000)
        volume_rest == (volume.q % 10) * 25000 + volume.r
        total_volume_m3 == (volume.q \div 10) +
                           (IF 2 * volume_rest < 250000 THEN 0
                            ELSE IF 2 * volume_rest > 250000 THEN 1
                            ELSE (volume.q \div 10) % 2)
        economic_damage == calculate_economic_damage(building_impact.at_risk, volume.q)
        zones == IF detailed_output
                 THEN generate_flood_zones(self, g, scenario_name, max_depth,
                                           flooded_area_pct, salt)
                 ELSE [out |-> Returned(<<>>), rng |-> g]
        locals == [effective_rainfall |-> rain.effective_rainfall,
                   excess_rainfall |-> rain.excess_rainfall,
                   total_excess_mm |-> rain.total_excess_mm,
                   max_depth |-> max_depth,
                   flooded_area_pct |-> flooded_area_pct,
                   flooded_area_m2 |-> flooded_area_m2,
                   risk_level |-> risk_level]
        result ==
            [scenario_name |-> scenario_name,
             module |-> "FloodSim",
             model_version |-> "FloodSim_v2.1_Suwalki",
             computation_time |-> now,
             parameters |->
                 [rainfall_mm_h |-> rainfall_mm_h,
                  duration_h |-> duration_h,
                  total_rainfall_mm |-> rainfall_mm_h * duration_h,
                  effective_rainfall_mm |-> rain.effective_rainfall * duration_h,
                  excess_rainfall_mm |-> rain.excess_rainfall * duration_h,
                  runoff_coefficient |-> self.runoff_coefficient],
             hydraulic_conditions |->
                 [drainage_capacity_mm_h |-> self.drainage_capacity,
                  infiltration_rate_mm_h |-> self.infiltration_rate,
                  manning_roughness |-> self.manning_n,
                  urban_coverage_percent |-> self.urban_coverage],
             metrics |->
                 [max_depth_m |-> RoundDiv(max_depth, 100),
                  mean_depth_m |-> RoundDiv(max_depth * 4, 1000),
                  flooded_area_km2 |-> RoundDiv(flooded_area_m2, 100),
                  flooded_area_percent |-> RoundDiv(flooded_area_pct, 100),
                  total_volume_m3 |-> total_volume_m3,
                  peak_flow_velocity_ms |->
                      IF max_depth > 0 THEN RoundSqrt(9 * max_depth, 10) ELSE 0,
                  risk_level |-> risk_level,
                  risk_score |-> risk_score(risk_level)],
             impact_assessment |->
                 [buildings_total |-> building_impact.total,
                  buildings_at_risk |-> building_impact.at_risk,
                  affected_population |-> building_impact.affected_population,
                  economic_damage_pln |-> economic_damage,
                  economic_damage_eur |-> RoundDiv(economic_damage * 2, 9),
                  evacuation_needed |-> (max_depth > 50000)]]
    IN  IF zones.out.raised # "none"
        THEN [out |-> zones.out, rng |-> zones.rng, locals |-> locals]
        ELSE [out |-> Returned(
                  IF detailed_output
                  THEN flood_detailed(self, result, zones.out.value)
                  ELSE result),
              rng |-> zones.rng,
              locals |-> locals]

-----------------------------------------------------------------------------
(* WindSimulator *)

\* __init__: KeyError when a field it reads is missing
Wind_init(config) ==
    IF ~HasKey(config, "area_km2") \/ ~HasKey(config, "center_lat")
       \/ ~HasKey(config, "center_lng")
    THEN Raised("KeyError")
    ELSE Returned([config |-> config,
                   area_km2 |-> config["area_km2"],
                   center_lat |-> config["center_lat"],
                   center_lng |-> config["center_lng"],
                   building_density |-> 25,          \* percent
                   average_building_height |-> 18,   \* m
                   surface_roughness |-> 3,          \* 0.1 m
                   air_density |-> 1225,             \* g/m3
                   reference_height |-> 100,         \* 0.1 m
                   pedestrian_height |-> 15,         \* 0.1 m
                   von_karman_constant |-> 41,       \* hundredths
                   tunnel_amplification |-> 80,      \* percent
                   wake_reduction |-> 30,            \* percent
                   green_area_reduction |-> 40])     \* percent

\* np.log(n / 3), in 0.0001, for the arguments (height + z0) / z0 of the model
log(n) ==
    CASE n = 7 -> 8473 [] n = 18 -> 17918 [] n = 23 -> 20369 [] n = 53 -> 28717
      [] n = 103 -> 35361 [] n = 203 -> 42146 [] n = 503 -> 51220

\* calculate_wind_profile without the floor "return max(0, wind_speed)"
calculate_wind_profile_unfloored(self, height, u_ref) ==
    LET z_ref == self.reference_height
        z0 == self.surface_roughness
        h == IF height <= z0 THEN z0 + 1 ELSE height
    IN  IF u_ref <= 0
        THEN -MulDivParts((-u_ref) * 1000, log(h + z0), log(z_ref + z0)).q
        ELSE MulDivParts(u_ref * 1000, log(h + z0), log(z_ref + z0)).q

\* calculate_wind_profile with z_ref and z0 of the object: height [0.1 m],
\* u_ref [0.1 m/s], the speed in 0.0001 m/s.  The quotient of the logarithms
\* is positive, so max(0, wind_speed) is 0 exactly when u_ref <= 0.
calculate_wind_profile(self, height, u_ref) ==
    LET z_ref == self.reference_height
        z0 == self.surface_roughness
        h == IF height <= z0 THEN z0 + 1 ELSE height
    IN  IF u_ref <= 0 THEN 0
        ELSE MulDivParts(u_ref * 1000, log(h + z0), log(z_ref + z0)).q

\* _calculate_directional_factor: direction [degree], the factor in hundredths
_calculate_directional_factor(direction) ==
    LET diff(s) == Abs(direction - s)
        min_angle_diff == Min(Min(diff(0), diff(90)), Min(diff(180), diff(270)))
    IN  IF min_angle_diff <= 15 THEN 115
        ELSE IF min_angle_diff <= 30 THEN 105
        ELSE 90

\* calculate_urban_effects: wind_speed_ref [0.1 m/s], the speeds in 0.000001 m/s
calculate_urban_effects(self, wind_speed_ref, direction) ==
    LET tunnel_factor == 10000 + self.building_density * self.tunnel_amplification
        wake_factor == 100 * (100 - self.wake_reduction)
        urban_reduction_factor == 10000 - self.building_density * 40
        pedestrian_speed ==
            calculate_wind_profile(self, self.pedestrian_height, wind_speed_ref)
        directional_factor == _calculate_directional_factor(direction)
    IN  [max_tunnel_speed |-> ((wind_speed_ref * tunnel_factor) \div 10) * directional_factor,
         min_wake_speed |-> ((wind_speed_ref * wake_factor) \div 10) * directional_factor,
         avg_urban_speed |->
             ((wind_speed_ref * urban_reduction_factor) \div 10) * directional_factor,
         pedestrian_speed |-> pedestrian_speed * directional_factor,
         directional_factor |-> directional_factor,
         tunnel_factor |-> tunnel_factor,
         wake_reduction_pct |-> self.wake_reduction]

\* assess_pedestrian_comfort with "<=" for "<" in the first comparison
assess_pedestrian_comfort_inclusive(wind_speed) ==
    IF wind_speed <= 4000000
    THEN <<"KOMFORTOWO", 1, "Warunki idealne do przebywania na zewnatrz">>
    ELSE IF wind_speed < 6000000
    THEN <<"AKCEPTOWALNE", 2, "Odpowiednie do spacerow i krotkiego przebywania">>
    ELSE IF wind_speed < 8000000
    THEN <<"NIEWLASCIWE", 3, "Tylko do szybkiego przejscia, dyskomfort">>
    ELSE IF wind_speed < 12000000
    THEN <<"NIEBEZPIECZNE", 4, "Trudnosci w chodzeniu, ryzyko upadku">>
    ELSE <<"EKSTREMALNIE NIEBEZPIECZNE", 5, "Niemozliwe przebywanie na zewnatrz">>

\* assess_pedestrian_comfort: wind_speed [0.000001 m/s]; the texts are written
\* without their diacritics
assess_pedestrian_comfort(wind_speed) ==
    IF wind_speed < 4000000
    THEN <<"KOMFORTOWO", 1, "Warunki idealne do przebywania na zewnatrz">>
    ELSE IF wind_speed < 6000000
    THEN <<"AKCEPTOWALNE", 2, "Odpowiednie do spacerow i krotkiego przebywania">>
    ELSE IF wind_speed < 8000000
    THEN <<"NIEWLASCIWE", 3, "Tylko do szybkiego przejscia, dyskomfort">>
    ELSE IF wind_speed < 12000000
    THEN <<"NIEBEZPIECZNE", 4, "Trudnosci w chodzeniu, ryzyko upadku">>
    ELSE <<"EKSTREMALNIE NIEBEZPIECZNE", 5, "Niemozliwe przebywanie na zewnatrz">>

\* calculate_wind_pressure: wind_speed [0.1 m/s], the pressures in 1/80000 Pa
\* (0.5 * 1.225 * v**2 is 490 * wind_speed**2 / 80000)
calculate_wind_pressure(self, wind_speed) ==
    LET dynamic_pressure == ((self.air_density * 2) \div 5) * wind_speed * wind_speed
    IN  [dynamic_pressure_pa |-> dynamic_pressure,
         windward_pressure_pa |-> (dynamic_pressure * 8) \div 10,
         leeward_pressure_pa |-> -((dynamic_pressure * 5) \div 10),
         side_pressure_pa |-> -((dynamic_pressure * 7) \div 10),
         roof_windward_pa |-> -((dynamic_pressure * 3) \div 10),
         roof_leeward_pa |-> -((dynamic_pressure * 6) \div 10),
         pressure_difference_pa |-> (dynamic_pressure * 13) \div 10]

\* calculate_comfort_zones_distribution with 50 for 55 in its last row
calculate_comfort_zones_distribution_short(urban_effects) ==
    LET avg_speed == urban_effects.avg_urban_speed
        zones(k, a, n, d) ==
            [komfortowo |-> k, akceptowalne |-> a, niewlasciwe |-> n, niebezpieczne |-> d]
    IN  IF avg_speed < 3000000 THEN zones(90, 8, 2, 0)
        ELSE IF avg_speed < 5000000 THEN zones(70, 20, 8, 2)
        ELSE IF avg_speed < 8000000 THEN zones(40, 35, 20, 5)
        ELSE IF avg_speed < 12000000 THEN zones(15, 25, 40, 20)
        ELSE zones(5, 10, 30, 50)

\* calculate_comfort_zones_distribution: the shares [percent] by avg_urban_speed
calculate_comfort_zones_distribution(urban_effects) ==
    LET avg_speed == urban_effects.avg_urban_speed
        zones(k, a, n, d) ==
            [komfortowo |-> k, akceptowalne |-> a, niewlasciwe |-> n, niebezpieczne |-> d]
    IN  IF avg_speed < 3000000 THEN zones(90, 8, 2, 0)
        ELSE IF avg_speed < 5000000 THEN zones(70, 20, 8, 2)
        ELSE IF avg_speed < 8000000 THEN zones(40, 35, 20, 5)
        ELSE IF avg_speed < 12000000 THEN zones(15, 25, 40, 20)
        ELSE zones(5, 10, 30, 55)

\* the microenvironments of generate_wind_field: turbulence in thousandths,
\* round(1 + turbulence * 0.5, 2) in hundredths as the floats give it
environment(environment_type) ==
    CASE environment_type = "tunnel" -> [turbulence |-> 250, gust_factor |-> 112]
      [] environment_type = "wake" -> [turbulence |-> 150, gust_factor |-> 107]
      [] environment_type = "green" -> [turbulence |-> 100, gust_factor |-> 105]
      [] environment_type = "intersection" -> [turbulence |-> 200, gust_factor |-> 110]
      [] OTHER -> [turbulence |-> 120, gust_factor |-> 106]

\* One pass of the loop of generate_wind_field, drawn from g.  direction runs
\* in 0.01 degree and local_speed in 0.000001 m/s here.  vx and vy, the
\* components of (local_speed, local_direction), take no draw and are left out.
wind_field_point(self, g, direction, urban_effects) ==
    LET d1 == Draw(g)
        lat == self.center_lat + 800 * NormalZ(d1.raw)
        d2 == Draw(d1.rng)
        lng == self.center_lng + 1200 * NormalZ(d2.raw)
        d3 == Draw(d2.rng)
        \* uniform(0.6, 1.4), in tenths
        spatial_variation == 6 + 2 * UniformQ(d3.raw)
        d4 == Draw(d3.rng)
        environment_type == choice(<<"open", "tunnel", "wake", "green", "intersection">>,
                                   <<30, 20, 20, 15, 15>>, d4.raw)
        local_speed ==
            CASE environment_type = "tunnel" ->
                     (urban_effects.max_tunnel_speed \div 10) * spatial_variation
              [] environment_type = "wake" ->
                     (urban_effects.min_wake_speed \div 10) * spatial_variation
              [] environment_type = "green" ->
                     (((urban_effects.avg_urban_speed \div 100)
                           * (100 - self.green_area_reduction)) \div 10) * spatial_variation
              [] environment_type = "intersection" ->
                     (urban_effects.avg_urban_speed \div 100) * 11 * spatial_variation
              [] OTHER -> (urban_effects.avg_urban_speed \div 10) * spatial_variation
        d5 == Draw(d4.rng)
        direction_deviation ==
            IF environment_type \in {"tunnel", "intersection"}
            THEN 375 * NormalZ(d5.raw) ELSE 250 * NormalZ(d5.raw)
        local_direction == (direction * 100 + direction_deviation) % 36000
        d6 == Draw(d5.rng)
        \* uniform(1.0, 20.0), in 0.01 m
        height_agl == 100 + 475 * UniformQ(d6.raw)
    IN  [point |-> [lat |-> lat,
                    lng |-> lng,
                    speed |-> RoundDiv(local_speed, 10000),
                    direction |-> RoundDiv(local_direction, 10),
                    height_agl |-> RoundDiv(height_agl, 10),
                    turbulence_intensity |-> environment(environment_type).turbulence,
                    environment_type |-> environment_type,
                    gust_factor |-> environment(environment_type).gust_factor],
         rng |-> d6.rng]

\* the draws one pass of the loop takes
wind_point_draws == 6

\* the loop of generate_wind_field from the generator g
wind_field_loop(self, num_points, g, direction, urban_effects) ==
    [points |-> [i \in 1..num_points |->
                    wind_field_point(self, Advance(g, (i - 1) * wind_point_draws),
                                     direction, urban_effects).point],
     rng |-> Advance(g, num_points * wind_point_draws)]

\* seed of generate_wind_field: abs(int(direction) + int(wind_speed_ref * 10)) % (2**31)
wind_seed_value(wind_speed_ref, direction) == Abs(direction + wind_speed_ref) % SeedSpace

\* num_points = min(100, max(20, int(wind_speed_ref * 5)))
wind_num_points(wind_speed_ref) == Min(100, Max(20, TruncDiv(wind_speed_ref * 5, 10)))

\* generate_wind_field: the list and the generator after it
generate_wind_field(self, g, scenario_name, wind_speed_ref, direction, urban_effects) ==
    LET g1 == np_random_seed(g, wind_seed_value(wind_speed_ref, direction))
        num_points == wind_num_points(wind_speed_ref)
        r == wind_field_loop(self, num_points, g1, direction, urban_effects)
    IN  [out |-> Returned(r.points), rng |-> r.rng]

\* The block "if detailed_output:" at the end of simulate_scenario
wind_detailed(self, result, wind_field) ==
    result @@
    [wind_field |-> wind_field,
     visualization |->
         [center_lat |-> self.center_lat,
          center_lng |-> self.center_lng,
          zoom_level |-> 14,
          vector_scale |-> 10,
          color_scale |-> "Viridis",
          particle_count |-> Len(wind_field)]]

\* simulate_scenario of WindSimulator, called when the generator is g and the
\* clock reads now: what it returns or raises, the generator after it, and its
\* local variables.  The quotient of speed_variation_factor raises
\* ZeroDivisionError when min_wake_speed is 0, after the field was generated.
Wind_simulate_scenario(self, wind_speed_ref, direction, scenario_name, detailed_output, g, now) ==
    LET urban_effects == calculate_urban_effects(self, wind_speed_ref, direction)
        comfort == assess_pedestrian_comfort(urban_effects.pedestrian_speed)
        wind_pressures == calculate_wind_pressure(self, wind_speed_ref)
        comfort_zones == calculate_comfort_zones_distribution(urban_effects)
        comfort_zones_percent == comfort_zones.komfortowo + comfort_zones.akceptowalne
        field == IF detailed_output
                 THEN generate_wind_field(self, g, scenario_name, wind_speed_ref,
                                          direction, urban_effects)
                 ELSE [out |-> Returned(<<>>), rng |-> g]
        locals == [urban_effects |-> urban_effects,
                   wind_pressures |-> wind_pressures,
                   comfort_zones_percent |-> comfort_zones_percent]
        result ==
            [scenario_name |-> scenario_name,
             module |-> "WindSim",
             model_version |-> "WindSim_v1.9_CFD",
             computation_time |-> now,
             parameters |->
                 [wind_speed_ref |-> wind_speed_ref,
                  wind_direction |-> direction,
                  reference_height |-> self.reference_height,
                  surface_roughness |-> self.surface_roughness,
                  air_density |-> self.air_density],
             urban_characteristics |->
                 [building_density_percent |-> self.building_density,
                  average_building_height |-> self.average_building_height,
                  tunnel_amplification |-> self.tunnel_amplification,
                  wake_reduction |-> self.wake_reduction,
                  directional_factor |-> urban_effects.directional_factor],
             wind_field_analysis |->
                 [max_speed |-> RoundDiv(urban_effects.max_tunnel_speed, 10000),
                  min_speed |-> RoundDiv(urban_effects.min_wake_speed, 10000),
                  avg_urban_speed |-> RoundDiv(urban_effects.avg_urban_speed, 10000),
                  pedestrian_speed |-> RoundDiv(urban_effects.pedestrian_speed, 10000),
                  speed_variation_factor |->
                      RoundDiv(Abs(urban_effects.max_tunnel_speed),
                               Abs(urban_effects.min_wake_speed) \div 100)],
             comfort_assessment |->
                 [pedestrian_comfort_level |-> comfort[1],
                  comfort_score |-> comfort[2],
                  comfort_description |-> comfort[3],
                  comfort_zones_percent |-> comfort_zones_percent,
                  comfort_distribution |-> comfort_zones],
             structural_loads |->
                 [dynamic_pressure_pa |->
                      RoundDiv(wind_pressures.dynamic_pressure_pa, 80000),
                  windward_pressure_pa |->
                      RoundDiv(wind_pressures.windward_pressure_pa, 80000),
                  leeward_pressure_pa |->
                      RoundDiv(wind_pressures.leeward_pressure_pa, 80000),
                  pressure_difference_pa |->
                      RoundDiv(wind_pressures.pressure_difference_pa, 80000),
                  design_wind_load_knm2 |->
                      RoundDiv(wind_pressures.dynamic_pressure_pa, 800000)]]
    IN  IF urban_effects.min_wake_speed = 0
        THEN [out |-> Raised("ZeroDivisionError"), rng |-> field.rng, locals |-> locals]
        ELSE [out |-> Returned(
                  IF detailed_output
                  THEN wind_detailed(self, result, field.out.value)
                  ELSE result),
              rng |-> field.rng,
              locals |-> locals]

-----------------------------------------------------------------------------
(* ThermalComfortSimulator.  calculate_zone_comfort is its except             *)
(* ImportError branch (pythermalcomfort is not installed);                   *)
(* calculate_zone_comfort_library is its try branch.                         *)

\* __init__: KeyError when a field it reads is missing
Thermal_init(config) ==
    IF ~HasKey(config, "center_lat") \/ ~HasKey(config, "center_lng")
       \/ ~HasKey(config, "area_km2")
    THEN Raised("KeyError")
    ELSE Returned([config |-> config,
                   center_lat |-> config["center_lat"],
                   center_lng |-> config["center_lng"],
                   area_km2 |-> config["area_km2"],
                   urban_heat_island_max |-> 40,     \* 0.1 C
                   green_cooling_effect |-> -25,     \* 0.1 C
                   water_cooling_effect |-> -15])    \* 0.1 C

\* floor(sqrt(x)) between lo and hi
RECURSIVE SqrtSearch(_, _, _)
SqrtSearch(x, lo, hi) ==
    IF lo >= hi THEN lo
    ELSE LET mid == (lo + hi + 1) \div 2
         IN  IF mid * mid <= x THEN SqrtSearch(x, mid, hi)
             ELSE SqrtSearch(x, lo, mid - 1)

\* np.sqrt(va): va [0.01 m/s], the root in 0.0001 (rounded down)
sqrt(va) == SqrtSearch(va * 1000000, 0, 46340)

\* a * b / c rounded toward zero, for b, c > 0
Scale(a, b, c) ==
    IF a >= 0 THEN MulDivParts(a, b, c).q ELSE -MulDivParts(-a, b, c).q

\* calculate_pmv_detailed, statement by statement, by the local names each
\* statement reads and the name it assigns.  The names bound when the loop
\* "for _ in range(10)" is entered:
pmv_detailed_bound ==
    {"self", "ta", "tr", "va", "rh", "met", "clo", "pa", "ta_k", "tr_k", "M", "W",
     "Icl", "fcl", "tcl"}

\* the statements of the body of the loop, in the order of the source
pmv_detailed_body ==
    <<[assigns |-> "hc", reads |-> {"tcl", "ta", "va"}],
      [assigns |-> "hc", reads |-> {"hc", "va"}],
      [assigns |-> "hr", reads |-> {"self", "fcl", "tcl_k", "tr_k"}],
      [assigns |-> "tcl_k", reads |-> {"tcl"}],
      [assigns |-> "tcl_new",
       reads |-> {"Icl", "fcl", "M", "W", "hr", "tr_k", "hc", "ta", "ta_k"}],
      [assigns |-> "tcl", reads |-> {"tcl_new"}]>>

\* the statements from the i-th on, run with the names bound: the names
\* bound after the body, or the UnboundLocalError of the first statement that
\* reads a name not bound
RECURSIVE pmv_detailed_run(_, _, _)
pmv_detailed_run(body, i, bound) ==
    IF i > Len(body) THEN Returned(bound)
    ELSE IF ~(body[i].reads \subseteq bound) THEN Raised("UnboundLocalError")
    ELSE pmv_detailed_run(body, i + 1, bound \cup {body[i].assigns})

\* calculate_pmv_detailed: ta [0.1 C]; pa is <<>> for None.  With pa None,
\* "17.27 * ta / (ta + 237.3)" divides by zero at ta = -237.3.  The first
\* pass of the loop then ends at the statement that reads tcl_k, which is
\* assigned one statement later: no call reaches the second pass, the heat
\* balance after the loop or the return.
calculate_pmv_detailed(ta, tr, va, rh, met, clo, pa) ==
    IF pa = <<>> /\ ta + 2373 = 0 THEN Raised("ZeroDivisionError")
    ELSE pmv_detailed_run(pmv_detailed_body, 1, pmv_detailed_bound)

\* calculate_pmv_simple: ta, tr [0.000001 C], va [0.01 m/s], rh [percent],
\* met, clo [hundredths]; the vote in 0.000001.  np.sqrt of a negative va is
\* nan, and max(-3.0, min(3.0, nan)) is 3.0.
calculate_pmv_simple(ta, tr, va, rh, met, clo) ==
    IF va < 0 THEN 3000000
    ELSE LET t_eff == ta + (3 * (tr - ta)) \div 10 - 200 * sqrt(va)
             \* humidity_factor in hundredths, met_factor in 1/200, clo_factor
             \* in thousandths
             humidity_factor == 100 + (rh - 50)
             met_factor == 200 + (met - 120)
             clo_factor == 1000 - 3 * (clo - 70)
             pmv == Scale(Scale(Scale(t_eff - 22000000, humidity_factor, 100),
                                met_factor, 200),
                          clo_factor, 1000) \div 8
         IN  Max(-3000000, Min(3000000, pmv))

\* 100 - 95 * exp(-0.03353 * pmv**4 - 0.2179 * pmv**2), in 0.001 percent, for
\* |pmv| = 0.00, 0.01, ... 3.00
ppd_table ==
    <<5000, 5002, 5008, 5019, 5033, 5052, 5075, 5101, 5133, 5168,
      5207, 5251, 5298, 5350, 5406, 5466, 5531, 5599, 5672, 5748,
      5829, 5915, 6004, 6098, 6195, 6297, 6403, 6514, 6628, 6747,
      6870, 6997, 7129, 7265, 7405, 7549, 7697, 7850, 8007, 8168,
      8334, 8504, 8678, 8856, 9039, 9226, 9417, 9612, 9812, 10017,
      10225, 10438, 10655, 10876, 11102, 11332, 11567, 11806, 12049, 12296,
      12548, 12804, 13065, 13330, 13599, 13872, 14150, 14433, 14719, 15010,
      15305, 15605, 15908, 16217, 16529, 16846, 17167, 17492, 17821, 18155,
      18493, 18835, 19182, 19533, 19887, 20246, 20610, 20977, 21348, 21724,
      22104, 22487, 22875, 23267, 23663, 24062, 24466, 24874, 25285, 25700,
      26120, 26543, 26969, 27400, 27834, 28272, 28713, 29158, 29606, 30058,
      30514, 30973, 31435, 31900, 32369, 32841, 33316, 33795, 34276, 34760,
      35247, 35738, 36231, 36726, 37225, 37726, 38229, 38736, 39244, 39755,
      40268, 40784, 41302, 41821, 42343, 42867, 43392, 43920, 44449, 44980,
      45512, 46045, 46581, 47117, 47654, 48193, 48733, 49273, 49815, 50357,
      50900, 51444, 51988, 52532, 53077, 53621, 54166, 54711, 55256, 55801,
      56345, 56889, 57433, 57976, 58518, 59060, 59600, 60140, 60678, 61216,
      61752, 62286, 62820, 63351, 63881, 64409, 64936, 65460, 65982, 66502,
      67020, 67536, 68049, 68559, 69067, 69572, 70074, 70574, 71070, 71563,
      72054, 72540, 73024, 73504, 73980, 74453, 74923, 75388, 75850, 76308,
      76762, 77212, 77657, 78099, 78536, 78969, 79398, 79822, 80242, 80657,
      81068, 81474, 81876, 82272, 82664, 83051, 83434, 83811, 84184, 84551,
      84914, 85271, 85624, 85971, 86314, 86651, 86984, 87311, 87633, 87950,
      88261, 88568, 88870, 89166, 89457, 89743, 90024, 90300, 90571, 90837,
      91098, 91353, 91604, 91849, 92090, 92326, 92557, 92783, 93004, 93220,
      93432, 93639, 93841, 94038, 94231, 94420, 94604, 94783, 94958, 95129,
      95295, 95457, 95615, 95769, 95918, 96064, 96206, 96344, 96478, 96608,
      96734, 96857, 96976, 97092, 97204, 97313, 97419, 97521, 97620, 97716,
      97808, 97898, 97985, 98069, 98150, 98228, 98304, 98377, 98448, 98516,
      98581, 98644, 98705, 98764, 98820, 98874, 98927, 98977, 99025, 99071,
      99116>>

\* the same for |pmv| = 3.0, 3.1, ... 4.1; from 4.1 on the share is 100.000
ppd_tail ==
    <<99116, 99471, 99697, 99834, 99913, 99957, 99980, 99991, 99996, 99999,
      99999, 100000>>

\* calculate_ppd_from_pmv without "max(5.0, min(100.0, ppd))" and with the
\* exponential replaced by 1 - x, which leaves the interval for large pmv
calculate_ppd_from_pmv_unbounded(pmv) ==
    LET a == Abs(pmv) \div 10000
    IN  5000 + 95 * ((2179 * a * a) \div 10000)

\* calculate_ppd_from_pmv: pmv [0.000001], the share in 0.001 percent; between
\* two entries of a table the exponential is taken as linear
calculate_ppd_from_pmv(pmv) ==
    LET a == Abs(pmv)
        k == a \div 10000
        w == a % 10000
        t == a \div 100000
        v == a % 100000
        ppd == IF k < 300
               THEN ppd_table[k + 1] + ((ppd_table[k + 2] - ppd_table[k + 1]) * w) \div 10000
               ELSE IF t < 41
               THEN ppd_tail[t - 29] + ((ppd_tail[t - 28] - ppd_tail[t - 29]) * v) \div 100000
               ELSE 100000
    IN  Max(5000, Min(100000, ppd))

\* calculate_utci_simple: ta, tr [0.000001 C], va [0.01 m/s], rh [percent]
calculate_utci_simple(ta, tr, va, rh) ==
    LET radiant == ta + (4 * (tr - ta)) \div 10
        wind_cooling == IF va > 50 THEN -200 * sqrt(va) ELSE 0
        humidity_effect == IF ta > 20000000 THEN 10000 * (rh - 50)
                           ELSE -5000 * (rh - 50)
    IN  radiant + wind_cooling + humidity_effect

\* calculate_pet_simple: 18 + 7 * pmv, in 0.000001 C
calculate_pet_simple(ta, tr, va, rh, met, clo) ==
    18000000 + 7 * calculate_pmv_simple(ta, tr, va, rh, met, clo)

\* absorption_factors.get(surface_type, 0.05) / 100, in 0.000001 C per W/m2
solar_factor(surface_type) ==
    CASE surface_type = "urban" -> 600 [] surface_type = "grass" -> 200
      [] surface_type = "water" -> 100 [] surface_type = "asphalt" -> 800
      [] surface_type = "roof" -> 700 [] surface_type = "concrete" -> 650
      [] OTHER -> 500

\* estimate_mean_radiant_temperature: ta [0.000001 C], solar_rad [W/m2]
estimate_mean_radiant_temperature(ta, solar_rad, surface_type) ==
    LET radiation_increase == solar_rad * solar_factor(surface_type)
        uhi_radiation == IF surface_type \in {"urban", "asphalt", "concrete"}
                         THEN Min(2000000, solar_rad * 2500) ELSE 0
    IN  ta + radiation_increase + uhi_radiation

\* define_urban_zones: the keys in the order of the dictionary
zone_list == <<"rynek_main", "street_commercial", "parks_green", "residential", "open_spaces">>

\* define_urban_zones with 16 for 17 percent of open_spaces
define_urban_zones_short ==
    [rynek_main |->
         [name |-> "Rynek Glowny", surface_type |-> "urban", temp_offset |-> 30,
          wind_reduction |-> 7, humidity_offset |-> -5, area_percent |-> 8],
     street_commercial |->
         [name |-> "Ulice handlowe", surface_type |-> "asphalt", temp_offset |-> 25,
          wind_reduction |-> 5, humidity_offset |-> -3, area_percent |-> 25],
     parks_green |->
         [name |-> "Parki i skwery", surface_type |-> "grass", temp_offset |-> -20,
          wind_reduction |-> 9, humidity_offset |-> 8, area_percent |-> 15],
     residential |->
         [name |-> "Obszary mieszkaniowe", surface_type |-> "urban", temp_offset |-> 10,
          wind_reduction |-> 8, humidity_offset |-> 0, area_percent |-> 35],
     open_spaces |->
         [name |-> "Otwarte przestrzenie", surface_type |-> "concrete", temp_offset |-> 28,
          wind_reduction |-> 10, humidity_offset |-> -8, area_percent |-> 16]]

\* define_urban_zones: temp_offset [0.1 C], wind_reduction [tenths],
\* humidity_offset and area_percent [percent]
define_urban_zones ==
    [rynek_main |->
         [name |-> "Rynek Glowny", surface_type |-> "urban", temp_offset |-> 30,
          wind_reduction |-> 7, humidity_offset |-> -5, area_percent |-> 8],
     street_commercial |->
         [name |-> "Ulice handlowe", surface_type |-> "asphalt", temp_offset |-> 25,
          wind_reduction |-> 5, humidity_offset |-> -3, area_percent |-> 25],
     parks_green |->
         [name |-> "Parki i skwery", surface_type |-> "grass", temp_offset |-> -20,
          wind_reduction |-> 9, humidity_offset |-> 8, area_percent |-> 15],
     residential |->
         [name |-> "Obszary mieszkaniowe", surface_type |-> "urban", temp_offset |-> 10,
          wind_reduction |-> 8, humidity_offset |-> 0, area_percent |-> 35],
     open_spaces |->
         [name |-> "Otwarte przestrzenie", surface_type |-> "concrete", temp_offset |-> 28,
          wind_reduction |-> 10, humidity_offset |-> -8, area_percent |-> 17]]

\* comfort_class with "<=" for "<" in its second comparison
comfort_class_inclusive(pmv) ==
    IF Abs(pmv) < 500000 THEN <<"DOSKONALY", 5>>
    ELSE IF Abs(pmv) <= 1000000 THEN <<"DOBRY", 4>>
    ELSE IF Abs(pmv) < 1500000 THEN <<"AKCEPTOWALNY", 3>>
    ELSE IF Abs(pmv) < 2000000 THEN <<"SLABY", 2>>
    ELSE <<"NIEAKCEPTOWALNY", 1>>

\* comfort_class with 2.5 for 2.0 as its last threshold
comfort_class_late(pmv) ==
    IF Abs(pmv) < 500000 THEN <<"DOSKONALY", 5>>
    ELSE IF Abs(pmv) < 1000000 THEN <<"DOBRY", 4>>
    ELSE IF Abs(pmv) < 1500000 THEN <<"AKCEPTOWALNY", 3>>
    ELSE IF Abs(pmv) < 2500000 THEN <<"SLABY", 2>>
    ELSE <<"NIEAKCEPTOWALNY", 1>>

\* the comfort level and score of calculate_zone_comfort: pmv [0.000001]
comfort_class(pmv) ==
    IF Abs(pmv) < 500000 THEN <<"DOSKONALY", 5>>
    ELSE IF Abs(pmv) < 1000000 THEN <<"DOBRY", 4>>
    ELSE IF Abs(pmv) < 1500000 THEN <<"AKCEPTOWALNY", 3>>
    ELSE IF Abs(pmv) < 2000000 THEN <<"SLABY", 2>>
    ELSE <<"NIEAKCEPTOWALNY", 1>>

\* the recommendation of calculate_zone_comfort: pmv [0.000001]
recommendation(pmv) ==
    IF pmv > 2000000
    THEN "Unikac ekspozycji 10:00-18:00, szukac cienia, nawodnienie"
    ELSE IF pmv > 1000000
    THEN "Krotkie przebywanie, czeste przerwy w cieniu, nawodnienie"
    ELSE IF pmv > 500000
    THEN "Komfortowe warunki, mozliwe dluzsze przebywanie"
    ELSE IF pmv < -2000000
    THEN "Ochrona przed wiatrem, cieple ubranie, aktywnosc fizyczna"
    ELSE IF pmv < -1000000
    THEN "Dodatkowa warstwa odziezy, ograniczenie czasu ekspozycji"
    ELSE IF pmv < -500000
    THEN "Lekka korekta ubioru, generalnie komfortowe warunki"
    ELSE "Optymalne warunki komfortu termicznego"

\* calculate_zone_comfort: ta [0.1 C], rh [percent], va [0.1 m/s],
\* solar_rad [W/m2], met, clo [hundredths].  In the result temperatures run in
\* 0.1 C, wind_speed in 0.01 m/s, pmv in 0.01 and ppd in 0.1 percent.
calculate_zone_comfort(zone, ta, rh, va, solar_rad, met, clo) ==
    LET local_temp == (ta + zone.temp_offset) * 100000
        local_humidity == Max(20, Min(95, rh + zone.humidity_offset))
        local_wind == va * zone.wind_reduction
        local_tmrt == estimate_mean_radiant_temperature(local_temp, solar_rad,
                                                        zone.surface_type)
        pmv == calculate_pmv_simple(local_temp, local_tmrt, local_wind, local_humidity,
                                    met, clo)
        ppd == calculate_ppd_from_pmv(pmv)
        utci_value == calculate_utci_simple(local_temp, local_tmrt, local_wind,
                                            local_humidity)
        pet_value == calculate_pet_simple(local_temp, local_tmrt, local_wind,
                                          local_humidity, met, clo)
    IN  [zone_name |-> zone.name,
         area_percent |-> zone.area_percent,
         microclimate |->
             [air_temp |-> ta + zone.temp_offset,
              mean_radiant_temp |-> RoundDiv(local_tmrt, 100000),
              wind_speed |-> local_wind,
              humidity |-> local_humidity,
              surface_type |-> zone.surface_type],
         comfort_indices |->
             [pmv |-> RoundDiv(pmv, 10000),
              ppd |-> RoundDiv(ppd, 100),
              utci |-> RoundDiv(utci_value, 100000),
              pet |-> RoundDiv(pet_value, 100000)],
         assessment |->
             [comfort_level |-> comfort_class(pmv)[1],
              comfort_score |-> comfort_class(pmv)[2],
              recommendation |-> recommendation(pmv),
              thermal_stress |-> IF pmv > 1000000 THEN "heat"
                                 ELSE IF pmv < -1000000 THEN "cold" ELSE "neutral"]]

\* calculate_zone_comfort when pythermalcomfort is installed: the try branch.
\* pmv and ppd are pmv_result['pmv'] and pmv_result['ppd'] and utci_value is
\* what utci() returned, taken as the library gave them: pmv [0.000001],
\* ppd [0.001 percent], utci_value [0.000001 C].
calculate_zone_comfort_library(zone, ta, rh, va, solar_rad, met, clo, pmv_result, utci_value) ==
    LET local_temp == (ta + zone.temp_offset) * 100000
        local_humidity == Max(20, Min(95, rh + zone.humidity_offset))
        local_wind == va * zone.wind_reduction
        local_tmrt == estimate_mean_radiant_temperature(local_temp, solar_rad,
                                                        zone.surface_type)
        pmv == pmv_result.pmv
        ppd == pmv_result.ppd
        pet_value == calculate_pet_simple(local_temp, local_tmrt, local_wind,
                                          local_humidity, met, clo)
    IN  [zone_name |-> zone.name,
         area_percent |-> zone.area_percent,
         microclimate |->
             [air_temp |-> ta + zone.temp_offset,
              mean_radiant_temp |-> RoundDiv(local_tmrt, 100000),
              wind_speed |-> local_wind,
              humidity |-> local_humidity,
              surface_type |-> zone.surface_type],
         comfort_indices |->
             [pmv |-> RoundDiv(pmv, 10000),
              ppd |-> RoundDiv(ppd, 100),
              utci |-> RoundDiv(utci_value, 100000),
              pet |-> RoundDiv(pet_value, 100000)],
         assessment |->
             [comfort_level |-> comfort_class(pmv)[1],
              comfort_score |-> comfort_class(pmv)[2],
              recommendation |-> recommendation(pmv),
              thermal_stress |-> IF pmv > 1000000 THEN "heat"
                                 ELSE IF pmv < -1000000 THEN "cold" ELSE "neutral"]]

\* One pass of the loop of generate_comfort_points, drawn from g.
comfort_point(self, g, zones_results) ==
    LET d1 == Draw(g)
        lat == self.center_lat + 800 * NormalZ(d1.raw)
        d2 == Draw(d1.rng)
        lng == self.center_lng + 1200 * NormalZ(d2.raw)
        d3 == Draw(d2.rng)
        zone_choice == choice(zone_list,
                              [i \in 1..Len(zone_list) |->
                                   zones_results[zone_list[i]].area_percent],
                              d3.raw)
        zone_data == zones_results[zone_choice]
        d4 == Draw(d3.rng)
        \* normal(0, 0.3), in 0.01
        local_pmv == Max(-300, Min(300, zone_data.comfort_indices.pmv
                                        + 3 * NormalZ(d4.raw)))
        d5 == Draw(d4.rng)
        \* normal(0, 2.0), in 0.1 C
        local_utci == zone_data.comfort_indices.utci + 2 * NormalZ(d5.raw)
        d6 == Draw(d5.rng)
        \* normal(0, 2.5), in 0.01 C
        local_pet == zone_data.comfort_indices.pet * 10 + 25 * NormalZ(d6.raw)
        d7 == Draw(d6.rng)
        \* normal(0, 3), in 0.1 C
        surface_temp == zone_data.microclimate.mean_radiant_temp + 3 * NormalZ(d7.raw)
    IN  [point |-> [lat |-> lat,
                    lng |-> lng,
                    pmv |-> local_pmv,
                    ppd |-> RoundDiv(calculate_ppd_from_pmv(local_pmv * 10000), 100),
                    utci |-> local_utci,
                    pet |-> RoundDiv(local_pet, 10),
                    zone_type |-> zone_choice,
                    surface_temp |-> surface_temp,
                    comfort_score |-> Max(1, Min(5, RoundDiv(500 - Abs(local_pmv), 100))),
                    microenvironment |-> zone_data.microclimate.surface_type],
         rng |-> d7.rng]

\* the draws one pass of the loop takes
comfort_point_draws == 7

\* the loop of generate_comfort_points from the generator g
comfort_points_loop(self, num_points, g, zones_results) ==
    [points |-> [i \in 1..num_points |->
                    comfort_point(self, Advance(g, (i - 1) * comfort_point_draws),
                                  zones_results).point],
     rng |-> Advance(g, num_points * comfort_point_draws)]

\* seed of generate_comfort_points:
\* abs(hash(scenario_name) + int(overall_comfort * 1000)) % (2**31),
\* overall_comfort in hundredths
thermal_seed_value(scenario_name, overall_comfort, salt) ==
    Abs(hash(scenario_name, salt) + overall_comfort * 10) % SeedSpace

\* sum of f over the zones
RECURSIVE SumZones(_, _)
SumZones(f, i) == IF i > Len(zone_list) THEN 0 ELSE f[zone_list[i]] + SumZones(f, i + 1)

\* num_points = min(80, max(30, int(np.var(pmv of the zones) * 50 + 40))):
\* the variance of n values p, in 0.0001, is (n * sum(p*p) - sum(p)**2) / n**2
thermal_num_points(zones_results) ==
    LET n == Len(zone_list)
        p == [z \in DOMAIN zones_results |-> zones_results[z].comfort_indices.pmv]
        squares == SumZones([z \in DOMAIN p |-> p[z] * p[z]], 1)
        total == SumZones(p, 1)
    IN  Min(80, Max(30, TruncDiv((n * squares - total * total) * 50, n * n * 10000) + 40))

\* generate_comfort_points: the list and the generator after it
generate_comfort_points(self, g, scenario_name, zones_results, overall_comfort, salt) ==
    LET g1 == np_random_seed(g, thermal_seed_value(scenario_name, overall_comfort, salt))
        num_points == thermal_num_points(zones_results)
        r == comfort_points_loop(self, num_points, g1, zones_results)
    IN  [out |-> Returned(r.points), rng |-> r.rng]

\* clothing_values.get(season, 1.0): another default
clothing_values_other_default(season) ==
    CASE season = "winter" -> 200 [] season = "spring" -> 80
      [] season = "summer" -> 40 [] season = "autumn" -> 100 [] OTHER -> 100

\* clothing_values.get(season, 0.7) and activity_values.get(season, 1.2),
\* in hundredths
clothing_values(season) ==
    CASE season = "winter" -> 200 [] season = "spring" -> 80
      [] season = "summer" -> 40 [] season = "autumn" -> 100 [] OTHER -> 70

activity_values(season) ==
    CASE season = "winter" -> 140 [] season = "spring" -> 120
      [] season = "summer" -> 100 [] season = "autumn" -> 130 [] OTHER -> 120

\* _classify_thermal_stress: ta [0.1 C]
_classify_thermal_stress(ta) ==
    IF ta < -100 THEN "extreme_cold"
    ELSE IF ta < 0 THEN "cold"
    ELSE IF ta < 180 THEN "cool"
    ELSE IF ta < 260 THEN "comfortable"
    ELSE IF ta < 320 THEN "warm"
    ELSE IF ta < 380 THEN "hot"
    ELSE "extreme_heat"

\* The loop of simulate_scenario over the zones: zone_results, zone_id by
\* zone_id.
thermal_zone_results(ta, rh, va, solar_rad, met, clo) ==
    LET zone_comfort(zone_id) ==
            calculate_zone_comfort(define_urban_zones[zone_id], ta, rh, va, solar_rad,
                                   met, clo)
    IN  [rynek_main |-> zone_comfort("rynek_main"),
         street_commercial |-> zone_comfort("street_commercial"),
         parks_green |-> zone_comfort("parks_green"),
         residential |-> zone_comfort("residential"),
         open_spaces |-> zone_comfort("open_spaces")]

\* The same loop when pythermalcomfort is installed and answers every zone
\* with library.pmv_result and library.utci.
thermal_zone_results_library(ta, rh, va, solar_rad, met, clo, library) ==
    LET zone_comfort(zone_id) ==
            calculate_zone_comfort_library(define_urban_zones[zone_id], ta, rh, va,
                                           solar_rad, met, clo, library.pmv_result,
                                           library.utci)
    IN  [rynek_main |-> zone_comfort("rynek_main"),
         street_commercial |-> zone_comfort("street_commercial"),
         parks_green |-> zone_comfort("parks_green"),
         residential |-> zone_comfort("residential"),
         open_spaces |-> zone_comfort("open_spaces")]

\* The block "if detailed_output:" at the end of simulate_scenario
thermal_detailed(self, result, comfort_points) ==
    result @@
    [comfort_map |-> comfort_points,
     visualization |->
         [center_lat |-> self.center_lat,
          center_lng |-> self.center_lng,
          zoom_level |-> 14,
          color_scale |-> "RdYlBu_r",
          legend_title |-> "PMV Comfort Scale"]]

\* simulate_scenario after its loop over the zones: the overall metrics, the
\* points and the result.
thermal_scenario(self, ta, rh, va, solar_rad, scenario_name, season, detailed_output, g, now, salt, zone_results) ==
    LET clo == clothing_values(season)
        met == activity_values(season)
        urban_zones == define_urban_zones
        \* in hundredths
        overall_comfort_score ==
            SumZones([z \in DOMAIN urban_zones |->
                         zone_results[z].assessment.comfort_score
                             * urban_zones[z].area_percent], 1)
        count(P(_)) == SumZones([z \in DOMAIN urban_zones |->
                                    IF P(zone_results[z].comfort_indices.pmv) THEN 1 ELSE 0],
                                1)
        IsComfortable(pmv) == Abs(pmv) < 100
        IsHeat(pmv) == pmv > 200
        IsCold(pmv) == pmv < -200
        comfortable_zones_count == count(IsComfortable)
        heat_stress_zones == count(IsHeat)
        cold_stress_zones == count(IsCold)
        points == IF detailed_output
                  THEN generate_comfort_points(self, g, scenario_name, zone_results,
                                               overall_comfort_score, salt)
                  ELSE [out |-> Returned(<<>>), rng |-> g]
        locals == [clo |-> clo, met |-> met,
                   overall_comfort_score |-> overall_comfort_score,
                   comfortable_zones_count |-> comfortable_zones_count]
        result ==
            [scenario_name |-> scenario_name,
             module |-> "ThermalSim",
             model_version |-> "ThermalSim_v1.6_PMV_UTCI_PET",
             computation_time |-> now,
             parameters |->
                 [air_temperature |-> ta,
                  relative_humidity |-> rh,
                  wind_speed |-> va,
                  solar_radiation |-> solar_rad,
                  clothing_insulation_clo |-> clo,
                  metabolic_rate_met |-> met,
                  season |-> season],
             environmental_conditions |->
                 [thermal_stress_category |-> _classify_thermal_stress(ta),
                  humidity_comfort |->
                      IF 40 <= rh /\ rh <= 60 THEN "optimal" ELSE "suboptimal",
                  wind_comfort |->
                      IF 5 <= va /\ va <= 20 THEN "optimal" ELSE "suboptimal",
                  solar_load |-> IF solar_rad < 200 THEN "low"
                                 ELSE IF solar_rad < 600 THEN "moderate" ELSE "high"],
             overall_metrics |->
                 [city_comfort_score |-> overall_comfort_score,
                  \* count / 5 * 100, in 0.1 percent
                  comfort_zones_percent |->
                      RoundDiv(comfortable_zones_count * 1000, Len(zone_list)),
                  heat_stress_zones |-> heat_stress_zones,
                  cold_stress_zones |-> cold_stress_zones,
                  \* max(0, ta - 20) * 0.15, in 0.1 C
                  uhi_effect_estimated |-> RoundDiv(Max(0, ta - 200) * 15, 100)],
             zone_analysis |-> zone_results]
    IN  [out |-> Returned(
             IF detailed_output
             THEN thermal_detailed(self, result, points.out.value)
             ELSE result),
         rng |-> points.rng,
         locals |-> locals]

\* simulate_scenario of ThermalComfortSimulator, called when the generator is g
\* and the clock reads now: what it returns, the generator after it, and its
\* local variables.  ta [0.1 C], rh [percent], va [0.1 m/s], solar_rad [W/m2].
Thermal_simulate_scenario(self, ta, rh, va, solar_rad, scenario_name, season, detailed_output, g, now, salt) ==
    thermal_scenario(self, ta, rh, va, solar_rad, scenario_name, season,
                     detailed_output, g, now, salt,
                     thermal_zone_results(ta, rh, va, solar_rad, activity_values(season),
                                          clothing_values(season)))

-----------------------------------------------------------------------------
(* batch_simulate *)

\* key = name.lower().replace(" ", "_") of FloodSimulator.batch_simulate
flood_key(name) == replace(lower(name), " ", <<"_">>)

\* key = name.lower().replace(" ", "_") of ThermalComfortSimulator.batch_simulate
thermal_key(name) == replace(lower(name), " ", <<"_">>)

\* key = name.lower().replace(" ", "_").replace("-", "") of WindSimulator.batch_simulate
wind_key(name) == replace(replace(lower(name), " ", <<"_">>), "-", <<>>)

\* results[key] = result
store(results, key, result) == (key :> result) @@ results

\* The loop of FloodSimulator.batch_simulate from scenario i on: scenarios are
\* (rainfall, duration, name), nows[i] is the clock's reading in pass i.  An
\* exception of simulate_scenario ends the batch.
RECURSIVE Flood_batch_loop(_, _, _, _, _, _, _)
\* pass i once its simulate_scenario has come back with r
Flood_batch_pass(self, scenarios, i, results, nows, salt, name, r) ==
    IF r.out.raised # "none" THEN [out |-> r.out, rng |-> r.rng]
    ELSE Flood_batch_loop(self, scenarios, i + 1,
                          store(results, flood_key(name), r.out.value),
                          r.rng, nows, salt)

Flood_batch_loop(self, scenarios, i, results, g, nows, salt) ==
    IF i > Len(scenarios) THEN [out |-> Returned(results), rng |-> g]
    ELSE LET rainfall == scenarios[i][1]
             duration == scenarios[i][2]
             name == scenarios[i][3]
         IN  Flood_batch_pass(self, scenarios, i, results, nows, salt, name,
                              Flood_simulate_scenario(self, rainfall, duration, name,
                                                      TRUE, g, nows[i], salt))

Flood_batch_simulate(self, scenarios, g, nows, salt) ==
    Flood_batch_loop(self, scenarios, 1, <<>>, g, nows, salt)

\* The loop of ThermalComfortSimulator.batch_simulate: scenarios are
\* (ta, rh, va, solar, name, season)
RECURSIVE Thermal_batch_loop(_, _, _, _, _, _, _)
\* pass i once its simulate_scenario has come back with r
Thermal_batch_pass(self, scenarios, i, results, nows, salt, name, r) ==
    IF r.out.raised # "none" THEN [out |-> r.out, rng |-> r.rng]
    ELSE Thermal_batch_loop(self, scenarios, i + 1,
                            store(results, thermal_key(name), r.out.value),
                            r.rng, nows, salt)

Thermal_batch_loop(self, scenarios, i, results, g, nows, salt) ==
    IF i > Len(scenarios) THEN [out |-> Returned(results), rng |-> g]
    ELSE LET sc == scenarios[i]
             name == sc[5]
         IN  Thermal_batch_pass(self, scenarios, i, results, nows, salt, name,
                                Thermal_simulate_scenario(self, sc[1], sc[2], sc[3],
                                                          sc[4], name, sc[6], TRUE, g,
                                                          nows[i], salt))

Thermal_batch_simulate(self, scenarios, g, nows, salt) ==
    Thermal_batch_loop(self, scenarios, 1, <<>>, g, nows, salt)

\* The loop of WindSimulator.batch_simulate: scenarios are (speed, direction, name)
RECURSIVE Wind_batch_loop(_, _, _, _, _, _)
\* pass i once its simulate_scenario has come back with r
Wind_batch_pass(self, scenarios, i, results, nows, name, r) ==
    IF r.out.raised # "none" THEN [out |-> r.out, rng |-> r.rng]
    ELSE Wind_batch_loop(self, scenarios, i + 1,
                         store(results, wind_key(name), r.out.value),
                         r.rng, nows)

Wind_batch_loop(self, scenarios, i, results, g, nows) ==
    IF i > Len(scenarios) THEN [out |-> Returned(results), rng |-> g]
    ELSE LET speed == scenarios[i][1]
             direction == scenarios[i][2]
             name == scenarios[i][3]
         IN  Wind_batch_pass(self, scenarios, i, results, nows, name,
                             Wind_simulate_scenario(self, speed, direction, name, TRUE,
                                                    g, nows[i]))

Wind_batch_simulate(self, scenarios, g, nows) ==
    Wind_batch_loop(self, scenarios, 1, <<>>, g, nows)

-----------------------------------------------------------------------------
(* The program as a state machine *)

\* The clock readings of a run.
MaxClock == 2

NotConstructed == [raised |-> "not constructed"]
NoCall == [op |-> "none"]

Constructed(k) == sims[k].raised = "none"

\* datetime.now() of a call: not before the reading of the call before it
Now == {t \in clock..(clock + 1) : t <= MaxClock}

\* the caller keeps the result of the call before this one, or an older one
Keep == {ref, last}

\* A call of op with args has come back with r: the generator is as the call
\* left it, and last records the call with what r holds of it (its outcome and,
\* of a simulate_scenario, its local variables).
Outcome(op, args, r) ==
    /\ rng' = r.rng
    /\ last' = [op |-> op, args |-> args] @@ [k \in DOMAIN r \ {"rng"} |-> r[k]]

\* flood_sim.simulate_scenario(rainfall_mm_h, duration_h, scenario_name, detailed_output)
FloodSimulateScenario(rainfall_mm_h, duration_h, scenario_name, detailed_output) ==
    /\ Constructed("flood")
    /\ \E now \in Now :
         /\ clock' = now
         /\ Outcome("FloodSimulator.simulate_scenario",
                    [rainfall_mm_h |-> rainfall_mm_h,
                     duration_h |-> duration_h,
                     scenario_name |-> scenario_name,
                     detailed_output |-> detailed_output],
                    Flood_simulate_scenario(sims["flood"].value, rainfall_mm_h,
                                            duration_h, scenario_name, detailed_output,
                                            rng, now, hashSalt))
    /\ ref' \in Keep
    /\ UNCHANGED <<hashSalt, sims, thr>>

\* wind_sim.simulate_scenario(wind_speed_ref, direction, scenario_name, detailed_output)
WindSimulateScenario(wind_speed_ref, direction, scenario_name, detailed_output) ==
    /\ Constructed("wind")
    /\ \E now \in Now :
         /\ clock' = now
         /\ Outcome("WindSimulator.simulate_scenario",
                    [wind_speed_ref |-> wind_speed_ref,
                     direction |-> direction,
                     scenario_name |-> scenario_name,
                     detailed_output |-> detailed_output],
                    Wind_simulate_scenario(sims["wind"].value, wind_speed_ref, direction,
                                           scenario_name, detailed_output, rng, now))
    /\ ref' \in Keep
    /\ UNCHANGED <<hashSalt, sims, thr>>

\* thermal_sim.simulate_scenario(ta, rh, va, solar_rad, scenario_name, season, detailed_output)
ThermalSimulateScenario(ta, rh, va, solar_rad, scenario_name, season, detailed_output) ==
    /\ Constructed("thermal")
    /\ \E now \in Now :
         /\ clock' = now
         /\ Outcome("ThermalComfortSimulator.simulate_scenario",
                    [ta |-> ta, rh |-> rh, va |-> va,
                     solar_rad |-> solar_rad,
                     scenario_name |-> scenario_name,
                     season |-> season,
                     detailed_output |-> detailed_output],
                    Thermal_simulate_scenario(sims["thermal"].value, ta, rh, va,
                                              solar_rad, scenario_name, season,
                                              detailed_output, rng, now, hashSalt))
    /\ ref' \in Keep
    /\ UNCHANGED <<hashSalt, sims, thr>>

\* thermal_sim.simulate_scenario(...) where pythermalcomfort is installed and
\* answers with library
ThermalSimulateScenarioLibrary(ta, rh, va, solar_rad, scenario_name, season, detailed_output, library) ==
    /\ Constructed("thermal")
    /\ \E now \in Now :
         /\ clock' = now
         /\ Outcome("ThermalComfortSimulator.simulate_scenario",
                    [ta |-> ta, rh |-> rh, va |-> va,
                     solar_rad |-> solar_rad,
                     scenario_name |-> scenario_name,
                     season |-> season,
                     detailed_output |-> detailed_output,
                     pythermalcomfort |-> library],
                    thermal_scenario(sims["thermal"].value, ta, rh, va, solar_rad,
                                     scenario_name, season, detailed_output, rng, now,
                                     hashSalt,
                                     thermal_zone_results_library(
                                         ta, rh, va, solar_rad, activity_values(season),
                                         clothing_values(season), library)))
    /\ ref' \in Keep
    /\ UNCHANGED <<hashSalt, sims, thr>>

\* flood_sim.assess_flood_risk(max_depth)
FloodAssessRisk(max_depth) ==
    /\ Constructed("flood")
    /\ last' = [op |-> "FloodSimulator.assess_flood_risk",
                args |-> [max_depth |-> max_depth],
                out |-> Returned(assess_flood_risk(max_depth))]
    /\ ref' \in Keep
    /\ UNCHANGED <<hashSalt, rng, clock, sims, thr>>

\* The clock's readings in the n passes of a batch: the clock ticks once, in
\* pass k or after the last pass.
Readings(n) ==
    {[i \in 1..n |-> IF i < k THEN clock ELSE clock + 1] : k \in 1..(n + 1)}

\* flood_sim.batch_simulate(scenarios)
FloodBatchSimulate(scenarios) ==
    /\ Constructed("flood")
    /\ clock < MaxClock
    /\ \E nows \in Readings(Len(scenarios)) :
         Outcome("FloodSimulator.batch_simulate", [scenarios |-> scenarios],
                 Flood_batch_simulate(sims["flood"].value, scenarios, rng, nows,
                                      hashSalt))
    /\ clock' = clock + 1
    /\ ref' \in Keep
    /\ UNCHANGED <<hashSalt, sims, thr>>

\* thermal_sim.batch_simulate(scenarios)
ThermalBatchSimulate(scenarios) ==
    /\ Constructed("thermal")
    /\ clock < MaxClock
    /\ \E nows \in Readings(Len(scenarios)) :
         Outcome("ThermalComfortSimulator.batch_simulate", [scenarios |-> scenarios],
                 Thermal_batch_simulate(sims["thermal"].value, scenarios, rng, nows,
                                        hashSalt))
    /\ clock' = clock + 1
    /\ ref' \in Keep
    /\ UNCHANGED <<hashSalt, sims, thr>>

\* wind_sim.batch_simulate(scenarios)
WindBatchSimulate(scenarios) ==
    /\ Constructed("wind")
    /\ clock < MaxClock
    /\ \E nows \in Readings(Len(scenarios)) :
         Outcome("WindSimulator.batch_simulate", [scenarios |-> scenarios],
                 Wind_batch_simulate(sims["wind"].value, scenarios, rng, nows))
    /\ clock' = clock + 1
    /\ ref' \in Keep
    /\ UNCHANGED <<hashSalt, sims, thr>>

\* FloodSimulator(config), ThermalComfortSimulator(config), WindSimulator(config):
\* the object, or the KeyError of __init__
ConstructFlood(config) ==
    /\ sims["flood"] = NotConstructed
    /\ sims' = [sims EXCEPT !["flood"] = Flood_init(config)]
    /\ last' = [op |-> "FloodSimulator.__init__",
                args |-> [config |-> config],
                out |-> [raised |-> Flood_init(config).raised]]
    /\ ref' \in Keep
    /\ UNCHANGED <<hashSalt, rng, clock, thr>>

ConstructThermal(config) ==
    /\ sims["thermal"] = NotConstructed
    /\ sims' = [sims EXCEPT !["thermal"] = Thermal_init(config)]
    /\ last' = [op |-> "ThermalComfortSimulator.__init__",
                args |-> [config |-> config],
                out |-> [raised |-> Thermal_init(config).raised]]
    /\ ref' \in Keep
    /\ UNCHANGED <<hashSalt, rng, clock, thr>>

ConstructWind(config) ==
    /\ sims["wind"] = NotConstructed
    /\ sims' = [sims EXCEPT !["wind"] = Wind_init(config)]
    /\ last' = [op |-> "WindSimulator.__init__",
                args |-> [config |-> config],
                out |-> [raised |-> Wind_init(config).raised]]
    /\ ref' \in Keep
    /\ UNCHANGED <<hashSalt, rng, clock, thr>>

\* Two threads of one process, each inside simulate_scenario(...,
\* detailed_output=True) of a simulator built from the example configuration.
\* The field generation is the part of the call that touches the generator the
\* threads share: it reseeds, then takes its draws pass by pass.  A thread
\* switch is taken between two passes of a loop; switches inside a pass add
\* interleavings and remove none.

\* the scenarios the threads run: flood 65 mm/h for 1 h, wind 5.0 m/s from 0
\* degrees, thermal 25.0 C, 60 %, 1.5 m/s, 400 W/m2 in summer
RaceFloodSelf == Flood_init(FullLocation).value
RaceFloodDepths ==
    calculate_flood_depths(calculate_effective_rainfall(RaceFloodSelf, 65, 1).total_excess_mm)
RaceWindSelf == Wind_init(FullLocation).value
RaceWindEffects == calculate_urban_effects(RaceWindSelf, 50, 0)
RaceThermalSelf == Thermal_init(FullLocation).value
RaceThermal ==
    Thermal_simulate_scenario(RaceThermalSelf, 250, 60, 15, 400, <<"a">>, "summer",
                              FALSE, seed(SeedSpace), MaxClock, 0)
RaceThermalZones == RaceThermal.out.value.zone_analysis
RaceThermalPoints == thermal_num_points(RaceThermalZones)

\* the seed a thread's generation sets
race_seed_value(call, salt) ==
    CASE call.kind = "flood" -> flood_seed_value(call.scenario_name, salt)
      [] call.kind = "wind" -> wind_seed_value(50, 0)
      [] call.kind = "thermal" ->
             thermal_seed_value(call.scenario_name,
                                RaceThermal.locals.overall_comfort_score, salt)

\* the passes of its loop
race_num_points(call) ==
    CASE call.kind = "flood" -> flood_num_zones(RaceFloodDepths.flooded_area_pct)
      [] call.kind = "wind" -> wind_num_points(50)
      [] call.kind = "thermal" -> RaceThermalPoints

\* pass i of its loop, drawn from the generator g: the point and the generator
\* after it
race_pass(call, i, g) ==
    CASE call.kind = "flood" ->
             LET r == flood_zone(RaceFloodSelf, i, g, RaceFloodDepths.max_depth,
                                 FullLocation.center_lat, FullLocation.center_lng)
             IN  [point |-> r.zone, rng |-> r.rng]
      [] call.kind = "wind" ->
             wind_field_point(RaceWindSelf, g, 0, RaceWindEffects)
      [] call.kind = "thermal" ->
             comfort_point(RaceThermalSelf, g, RaceThermalZones)

\* the list the generation returns when no other thread runs
race_alone(call, salt) ==
    CASE call.kind = "flood" ->
             generate_flood_zones(RaceFloodSelf, seed(SeedSpace), call.scenario_name,
                                  RaceFloodDepths.max_depth,
                                  RaceFloodDepths.flooded_area_pct, salt).out.value
      [] call.kind = "wind" ->
             generate_wind_field(RaceWindSelf, seed(SeedSpace), call.scenario_name,
                                 50, 0, RaceWindEffects).out.value
      [] call.kind = "thermal" ->
             generate_comfort_points(RaceThermalSelf, seed(SeedSpace),
                                     call.scenario_name, RaceThermalZones,
                                     RaceThermal.locals.overall_comfort_score,
                                     salt).out.value

\* a thread about to enter its generation
ThreadOf(call) ==
    [call |-> call, pc |-> "seed", i |-> 0, same |-> TRUE, alone |-> TRUE]

\* thread t has reseeded and has passes left
InLoop(t) == thr[t].pc = "loop"

\* the other threads, after a step of thread t: one inside its loop has been
\* interleaved
Others(t, u) == IF u # t /\ InLoop(u) THEN [thr[u] EXCEPT !.alone = FALSE] ELSE thr[u]

\* thread t: np.random.seed(seed_value)
RaceSeed(t) ==
    /\ thr[t].pc = "seed"
    /\ rng' = np_random_seed(rng, race_seed_value(thr[t].call, hashSalt))
    /\ thr' = [u \in DOMAIN thr |->
                  IF u = t THEN [thr[t] EXCEPT !.pc = "loop"] ELSE Others(t, u)]
    /\ UNCHANGED <<hashSalt, clock, sims, last, ref>>

\* thread t: one pass of its loop, the point appended to its list; same records
\* that the list so far is the list of the generation run alone
RacePass(t) ==
    /\ InLoop(t)
    /\ LET i == thr[t].i + 1
           r == race_pass(thr[t].call, i, rng)
       IN  /\ rng' = r.rng
           /\ thr' = [u \in DOMAIN thr |->
                         IF u = t
                         THEN [thr[t] EXCEPT
                                  !.i = i,
                                  !.same = @ /\ r.point = race_alone(thr[t].call, hashSalt)[i],
                                  !.pc = IF i = race_num_points(thr[t].call)
                                         THEN "done" ELSE "loop"]
                         ELSE Others(t, u)]
    /\ UNCHANGED <<hashSalt, clock, sims, last, ref>>

-----------------------------------------------------------------------------
(* SpecFlood: the hydrological model of one FloodSimulator *)

\* rainfall intensities [mm/h], around 8 (infiltration), 48 (infiltration +
\* drainage), the evacuation depth of 0.5 m and the depths' ceilings
RainValues == {-5, 0, 5, 48, 49, 65, 73, 131, 132, 150, 600}
\* durations [h]
DurValues == {-1, 0, 1, 2}
\* depths [0.00001 m] around the thresholds of assess_flood_risk
DepthValues == {-1, 0, 4999, 5000, 5001, 14999, 15000, 15001, 39999, 40000, 40001,
                79999, 80000, 80001, 300000}

InitFlood ==
    /\ hashSalt = 0
    /\ rng = seed(SeedSpace)
    /\ clock = MaxClock
    /\ sims = [flood |-> Flood_init(FullLocation), thermal |-> NotConstructed,
               wind |-> NotConstructed]
    /\ last = NoCall
    /\ ref = NoCall
    /\ thr = <<>>

NextFlood ==
    \/ \E r \in RainValues, d \in DurValues :
           FloodSimulateScenario(r, d, <<"a">>, FALSE)
    \/ \E d \in DepthValues : FloodAssessRisk(d)

SpecFlood == InitFlood /\ [][NextFlood]_vars

-----------------------------------------------------------------------------
(* Claims about the hydrological model, under SpecFlood *)

IsFloodScenario(c) ==
    c.op = "FloodSimulator.simulate_scenario" /\ c.out.raised = "none"
IsFloodRisk(c) == c.op = "FloodSimulator.assess_flood_risk"

\* C6: a scenario whose rainfall intensity is at most infiltration_rate +
\* drainage_capacity (48 mm/h) has, whatever its duration, total excess 0,
\* maximal depth 0, flooded area 0 and the risk level MINIMALNE with score 1.
C6_ZeroExcessBoundary ==
    (/\ IsFloodScenario(last)
     /\ last.args.rainfall_mm_h
            <= sims["flood"].value.infiltration_rate
               + sims["flood"].value.drainage_capacity)
    => /\ last.locals.total_excess_mm = 0
       /\ last.locals.max_depth = 0
       /\ last.locals.flooded_area_pct = 0
       /\ last.out.value.metrics.max_depth_m = 0
       /\ last.out.value.metrics.flooded_area_percent = 0
       /\ last.out.value.metrics.flooded_area_km2 = 0
       /\ last.out.value.metrics.risk_level = "MINIMALNE"
       /\ last.out.value.metrics.risk_score = 1

\* the boundary itself: 48 mm/h, for two hours
C6_Witness ==
    /\ IsFloodScenario(last)
    /\ last.args.rainfall_mm_h = 48
    /\ last.args.duration_h = 2

\* the three quantities of C7 that must not decrease
NotDecreasing(a, b) ==
    /\ a.locals.total_excess_mm <= b.locals.total_excess_mm
    /\ a.locals.max_depth <= b.locals.max_depth
    /\ a.locals.flooded_area_pct <= b.locals.flooded_area_pct
    /\ a.out.value.metrics.max_depth_m <= b.out.value.metrics.max_depth_m
    /\ a.out.value.metrics.flooded_area_percent
           <= b.out.value.metrics.flooded_area_percent

\* in the duration: effective rainfall, excess and total excess do not decrease
DurationMonotone ==
    (/\ IsFloodScenario(ref) /\ IsFloodScenario(last)
     /\ ref.args.rainfall_mm_h = last.args.rainfall_mm_h
     /\ ref.args.duration_h <= last.args.duration_h)
    => /\ ref.locals.effective_rainfall <= last.locals.effective_rainfall
       /\ ref.locals.excess_rainfall <= last.locals.excess_rainfall
       /\ ref.locals.total_excess_mm <= last.locals.total_excess_mm

\* C7 as stated: for every fixed duration and rainfall intensities r1 <= r2,
\* total excess, maximal depth and flooded area percent of r1 are at most
\* those of r2; and effective rainfall, excess and total excess do not decrease
\* in the duration.
C7_MonotoneAnyDuration ==
    /\ (/\ IsFloodScenario(ref) /\ IsFloodScenario(last)
        /\ ref.args.duration_h = last.args.duration_h
        /\ ref.args.rainfall_mm_h <= last.args.rainfall_mm_h)
       => NotDecreasing(ref, last)
    /\ DurationMonotone

\* C7 amended: the same for every fixed duration >= 0 (a negative duration
\* makes the total excess decrease in the intensity).
C7_Monotone ==
    /\ (/\ IsFloodScenario(ref) /\ IsFloodScenario(last)
        /\ ref.args.duration_h = last.args.duration_h
        /\ ref.args.duration_h >= 0
        /\ ref.args.rainfall_mm_h <= last.args.rainfall_mm_h)
       => NotDecreasing(ref, last)
    /\ DurationMonotone

\* 65 mm/h then 150 mm/h, both for two hours: the excess grows
C7_Witness ==
    /\ IsFloodScenario(ref) /\ IsFloodScenario(last)
    /\ ref.args.duration_h = 2 /\ last.args.duration_h = 2
    /\ ref.args.rainfall_mm_h = 65 /\ last.args.rainfall_mm_h = 150
    /\ ref.locals.total_excess_mm < last.locals.total_excess_mm

\* C8: for all inputs, negative ones too, the maximal depth is in [0, 3.0 m]
\* and the flooded area percent in [0, 100]; with total excess > 0 they are
\* min(total/100 * 0.8, 3.0) and min(100, total * 1.2), otherwise both are 0.
C8_FloodClamping ==
    IsFloodScenario(last)
    => /\ 0 <= last.locals.max_depth /\ last.locals.max_depth <= 300000
       /\ 0 <= last.locals.flooded_area_pct /\ last.locals.flooded_area_pct <= 100000
       /\ 0 <= last.out.value.metrics.max_depth_m
       /\ last.out.value.metrics.max_depth_m <= 3000
       /\ 0 <= last.out.value.metrics.flooded_area_percent
       /\ last.out.value.metrics.flooded_area_percent <= 1000
       /\ IF last.locals.total_excess_mm > 0
          THEN /\ last.locals.max_depth
                      = Min(last.locals.total_excess_mm * 8, 300000)
               /\ last.locals.flooded_area_pct
                      = Min(100000, last.locals.total_excess_mm * 12)
          ELSE /\ last.locals.max_depth = 0
               /\ last.locals.flooded_area_pct = 0

\* a scenario above both ceilings, after one with a negative total excess
C8_Witness ==
    /\ IsFloodScenario(last)
    /\ last.locals.total_excess_mm * 8 > 300000
    /\ last.locals.total_excess_mm * 12 > 100000
    /\ IsFloodScenario(ref)
    /\ ref.locals.total_excess_mm < 0

\* the band of a depth [0.00001 m], as C9 states it
BandOfDepth(d) ==
    CASE d < 5000 -> 1
      [] 5000 <= d /\ d < 15000 -> 2
      [] 15000 <= d /\ d < 40000 -> 3
      [] 40000 <= d /\ d < 80000 -> 4
      [] d >= 80000 -> 5
BandName(b) ==
    CASE b = 1 -> "MINIMALNE" [] b = 2 -> "NISKIE" [] b = 3 -> "UMIARKOWANE"
      [] b = 4 -> "WYSOKIE" [] b = 5 -> "KRYTYCZNE"

\* C9: assess_flood_risk gives MINIMALNE below 0.05 m, NISKIE from 0.05,
\* UMIARKOWANE from 0.15, WYSOKIE from 0.40 and KRYTYCZNE from 0.80 (a depth on
\* a threshold is in the higher band); the risk_score of a scenario is the
\* index of its band, in 1..5, and does not decrease in the depth.
C9_RiskClassification ==
    /\ IsFloodRisk(last)
       => last.out.value = BandName(BandOfDepth(last.args.max_depth))
    /\ IsFloodScenario(last)
       => /\ last.out.value.metrics.risk_level
                 = BandName(BandOfDepth(last.locals.max_depth))
          /\ last.out.value.metrics.risk_score = BandOfDepth(last.locals.max_depth)
          /\ last.out.value.metrics.risk_score \in 1..5
    /\ (/\ IsFloodScenario(ref) /\ IsFloodScenario(last)
        /\ ref.locals.max_depth <= last.locals.max_depth)
       => ref.out.value.metrics.risk_score <= last.out.value.metrics.risk_score

\* a depth on the 0.80 m threshold, then a scenario on the 0.15 m threshold
C9_Witness ==
    /\ IsFloodRisk(ref)
    /\ ref.args.max_depth = 80000
    /\ ref.out.value = "KRYTYCZNE"
    /\ IsFloodScenario(last)
    /\ last.locals.max_depth = 15000
    /\ last.out.value.metrics.risk_score = 3

\* C10: 65 mm/h for 2 h gives effective rainfall 57 mm/h, excess 17 mm/h, total
\* excess 25.5 mm, maximal depth 0.204 m and UMIARKOWANE; 5 mm/h for 1 h gives
\* effective rainfall 0, excess 0, depth 0 and MINIMALNE.
C10_WorkedExamples ==
    /\ (/\ IsFloodScenario(last)
        /\ last.args.rainfall_mm_h = 65 /\ last.args.duration_h = 2)
       => /\ last.locals.effective_rainfall = 57
          /\ last.locals.excess_rainfall = 17
          /\ last.locals.total_excess_mm = 2550
          /\ last.locals.max_depth = 20400
          /\ last.out.value.metrics.max_depth_m = 204
          /\ last.out.value.metrics.risk_level = "UMIARKOWANE"
    /\ (/\ IsFloodScenario(last)
        /\ last.args.rainfall_mm_h = 5 /\ last.args.duration_h = 1)
       => /\ last.locals.effective_rainfall = 0
          /\ last.locals.excess_rainfall = 0
          /\ last.locals.total_excess_mm = 0
          /\ last.locals.max_depth = 0
          /\ last.out.value.metrics.max_depth_m = 0
          /\ last.out.value.metrics.risk_level = "MINIMALNE"

\* both examples were run, one after the other
C10_Witness ==
    /\ IsFloodScenario(ref)
    /\ ref.args.rainfall_mm_h = 5 /\ ref.args.duration_h = 1
    /\ IsFloodScenario(last)
    /\ last.args.rainfall_mm_h = 65 /\ last.args.duration_h = 2

-----------------------------------------------------------------------------
(* Spec: one process with the three simulators, calling simulate_scenario *)

\* scenario names
NameUpperSpace == <<"A", " ">>
NameUnderscore == <<"a", "_">>
NameHyphen == <<"a", "-">>
NamePlain == <<"a">>

\* (rainfall [mm/h], duration [h]) of the flood scenarios
FloodInputs == {<<65, 1>>}
\* (wind_speed_ref [0.1 m/s], direction [degree]) of the wind scenarios
WindInputs == {<<50, 0>>, <<43, 45>>}
\* (ta [0.1 C], rh [percent], va [0.1 m/s], solar_rad [W/m2], season)
ThermalInputs == {<<250, 60, 15, 400, "summer">>}

Init ==
    /\ hashSalt \in {0, 1}
    /\ rng = seed(SeedSpace)
    /\ clock = MaxClock - 1
    /\ sims = [flood |-> Flood_init(FullLocation), thermal |-> Thermal_init(FullLocation),
               wind |-> Wind_init(FullLocation)]
    /\ last = NoCall
    /\ ref = NoCall
    /\ thr = <<>>

Next ==
    \/ \E i \in FloodInputs, n \in {NameUnderscore, NamePlain}, d \in BOOLEAN :
           FloodSimulateScenario(i[1], i[2], n, d)
    \/ \E i \in WindInputs :
           WindSimulateScenario(i[1], i[2], NamePlain, TRUE)
    \/ \E i \in ThermalInputs, n \in {NameUnderscore, NamePlain} :
           ThermalSimulateScenario(i[1], i[2], i[3], i[4], n, i[5], TRUE)

Spec == Init /\ [][Next]_vars

-----------------------------------------------------------------------------
(* Claims about simulate_scenario, under Spec *)

SimulateOps ==
    {"FloodSimulator.simulate_scenario", "ThermalComfortSimulator.simulate_scenario",
     "WindSimulator.simulate_scenario"}

IsSimulate(c) == c.op \in SimulateOps

\* a result without its timestamp
WithoutTime(result) == [result EXCEPT !.computation_time = 0]

\* the spatial point list of a detailed result
PointList(result) ==
    IF result.module = "FloodSim" THEN result.flood_zones
    ELSE IF result.module = "ThermalSim" THEN result.comfort_map
    ELSE result.wind_field

-----------------------------------------------------------------------------
(* SpecBatch: one process running one batch *)

\* The longest scenario list of a batch.
MaxBatch == 2

\* the scenarios a batch is made of: names that collide under the keys'
\* normalisation, with different parameters
FloodScenarios ==
    {<<65, 1, NameUpperSpace>>, <<150, 1, NameUnderscore>>, <<65, 2, NameHyphen>>,
     <<150, 1, NamePlain>>}
ThermalScenarios ==
    {<<250, 60, 15, 400, NameUpperSpace, "summer">>,
     <<50, 60, 15, 400, NameUnderscore, "winter">>,
     <<250, 60, 15, 400, NameHyphen, "autumn">>,
     <<50, 60, 15, 400, NamePlain, "summer">>}
WindScenarios ==
    {<<50, 0, NameUpperSpace>>, <<43, 45, NameUnderscore>>, <<50, 0, NameHyphen>>,
     <<43, 45, NamePlain>>}

\* the lists of at most n scenarios of S
Lists(S, n) == UNION {[1..k -> S] : k \in 0..n}

InitBatch ==
    /\ hashSalt \in {0, 1}
    /\ rng = seed(SeedSpace)
    /\ clock = MaxClock - 1
    /\ sims = [flood |-> Flood_init(FullLocation), thermal |-> Thermal_init(FullLocation),
               wind |-> Wind_init(FullLocation)]
    /\ last = NoCall
    /\ ref = NoCall
    /\ thr = <<>>

NextBatch ==
    \/ \E scenarios \in Lists(FloodScenarios, MaxBatch) : FloodBatchSimulate(scenarios)
    \/ \E scenarios \in Lists(ThermalScenarios, MaxBatch) : ThermalBatchSimulate(scenarios)
    \/ \E scenarios \in Lists(WindScenarios, MaxBatch) : WindBatchSimulate(scenarios)

SpecBatch == InitBatch /\ [][NextBatch]_vars

-----------------------------------------------------------------------------
(* Claims about batch_simulate, under SpecBatch *)

BatchOps ==
    {"FloodSimulator.batch_simulate", "ThermalComfortSimulator.batch_simulate",
     "WindSimulator.batch_simulate"}

IsBatch(c) == c.op \in BatchOps

\* the name of scenario i of the batch c
ScenarioName(c, i) ==
    IF c.op = "ThermalComfortSimulator.batch_simulate" THEN c.args.scenarios[i][5]
    ELSE c.args.scenarios[i][3]

\* the normalized name as the specification words it: lower-cased, spaces
\* replaced by underscores, and for WindSimulator hyphens deleted
NormalizedChar(c, wind) ==
    IF c = " " THEN <<"_">>
    ELSE IF c = "-" /\ wind THEN <<>>
    ELSE IF c = "A" THEN <<"a">>
    ELSE IF c = "B" THEN <<"b">>
    ELSE <<c>>

RECURSIVE Normalized(_, _)
Normalized(name, wind) ==
    IF name = <<>> THEN <<>>
    ELSE NormalizedChar(Head(name), wind) \o Normalized(Tail(name), wind)

NormalizedName(c, i) == Normalized(ScenarioName(c, i), c.op = "WindSimulator.batch_simulate")

\* no later scenario of the batch has the normalized name of scenario i
IsLastWithKey(c, i) ==
    \A j \in (i + 1)..Len(c.args.scenarios) : NormalizedName(c, j) # NormalizedName(c, i)

\* simulate_scenario alone on scenario i of the batch c, with detailed output,
\* called when the generator is g
Solo(c, i, g) ==
    LET sc == c.args.scenarios[i]
    IN  CASE c.op = "FloodSimulator.batch_simulate" ->
                 Flood_simulate_scenario(sims["flood"].value, sc[1], sc[2], sc[3], TRUE,
                                         g, 0, hashSalt).out
          [] c.op = "ThermalComfortSimulator.batch_simulate" ->
                 Thermal_simulate_scenario(sims["thermal"].value, sc[1], sc[2], sc[3],
                                           sc[4], sc[5], sc[6], TRUE, g, 0, hashSalt).out
          [] c.op = "WindSimulator.batch_simulate" ->
                 Wind_simulate_scenario(sims["wind"].value, sc[1], sc[2], sc[3], TRUE,
                                        g, 0).out

\* generators a call alone may find: freshly seeded, or left anywhere by
\* earlier calls
SoloGenerators == {seed(SeedSpace), Advance(seed(1), 3)}

\* C2: for every scenario list given to batch_simulate, the result stored for
\* a scenario equals, in every field except computation_time, the result of
\* simulate_scenario called alone on that scenario with detailed output,
\* whatever was processed earlier in the batch and wherever the scenario stands.
C2_BatchIndependence ==
    (IsBatch(last) /\ last.out.raised = "none")
    => \A i \in 1..Len(last.args.scenarios) :
           IsLastWithKey(last, i)
           => \A g \in SoloGenerators :
                  /\ Solo(last, i, g).raised = "none"
                  /\ WithoutTime(last.out.value[NormalizedName(last, i)])
                         = WithoutTime(Solo(last, i, g).value)

\* a batch of two scenarios stored under two keys, the second processed after
\* the first moved the generator
C2_Witness ==
    /\ IsBatch(last) /\ last.out.raised = "none"
    /\ Len(last.args.scenarios) = 2
    /\ last.args.scenarios[1] # last.args.scenarios[2]
    /\ Cardinality(DOMAIN last.out.value) = 2
    /\ Len(PointList(last.out.value[NormalizedName(last, 2)])) > 0

\* the scenario a result echoes
ScenarioOf(c, result) ==
    CASE c.op = "FloodSimulator.batch_simulate" ->
             <<result.parameters.rainfall_mm_h, result.parameters.duration_h,
               result.scenario_name>>
      [] c.op = "ThermalComfortSimulator.batch_simulate" ->
             <<result.parameters.air_temperature, result.parameters.relative_humidity,
               result.parameters.wind_speed, result.parameters.solar_radiation,
               result.scenario_name, result.parameters.season>>
      [] c.op = "WindSimulator.batch_simulate" ->
             <<result.parameters.wind_speed_ref, result.parameters.wind_direction,
               result.scenario_name>>

\* C3: batch_simulate keys each result by the normalized scenario name; when
\* scenarios of one batch normalize to the same key no error is raised, the
\* returned map holds exactly one entry for that key, the result of the
\* scenario that comes latest in the list, and the size of the map is the
\* number of distinct normalized names.
C3_KeyCollisions ==
    IsBatch(last)
    => /\ last.out.raised = "none"
       /\ DOMAIN last.out.value
              = {NormalizedName(last, i) : i \in 1..Len(last.args.scenarios)}
       /\ Cardinality(DOMAIN last.out.value)
              = Cardinality({NormalizedName(last, i) : i \in 1..Len(last.args.scenarios)})
       /\ \A i \in 1..Len(last.args.scenarios) :
              IsLastWithKey(last, i)
              => ScenarioOf(last, last.out.value[NormalizedName(last, i)])
                     = last.args.scenarios[i]

\* a wind batch of two scenarios whose names differ and collide once the
\* hyphen is deleted: one entry, of the second scenario
C3_Witness ==
    /\ last.op = "WindSimulator.batch_simulate" /\ last.out.raised = "none"
    /\ Len(last.args.scenarios) = 2
    /\ ScenarioName(last, 1) = NameHyphen
    /\ ScenarioName(last, 2) = NamePlain
    /\ DOMAIN last.out.value = {NamePlain}
    /\ last.out.value[NamePlain].scenario_name = NamePlain


-----------------------------------------------------------------------------
(* SpecRace: two threads generating spatial fields at the same time *)

\* what the threads run
FloodCalls == {[kind |-> "flood", scenario_name |-> NamePlain],
               [kind |-> "flood", scenario_name |-> NameUnderscore]}
RaceCalls == FloodCalls \cup {[kind |-> "wind", scenario_name |-> NamePlain],
                              [kind |-> "thermal", scenario_name |-> NamePlain]}

InitRace ==
    /\ hashSalt = 0
    /\ rng = seed(SeedSpace)
    /\ clock = MaxClock
    /\ sims = [flood |-> Flood_init(FullLocation), thermal |-> Thermal_init(FullLocation),
               wind |-> Wind_init(FullLocation)]
    /\ last = NoCall
    /\ ref = NoCall
    /\ thr \in {<<ThreadOf(c1), ThreadOf(c2)>> : c1 \in FloodCalls, c2 \in RaceCalls}

NextRace ==
    \/ \E t \in DOMAIN thr : RaceSeed(t)
    \/ \E t \in DOMAIN thr : RacePass(t)

SpecRace == InitRace /\ [][NextRace]_vars

\* thread t has returned from its generation
Done(t) == thr[t].pc = "done"

\* C4: the generations reseed and draw from one generator that the threads of
\* a process share.  A generation that no other thread interleaved returns the
\* list it returns when run alone; a list that differs comes from an
\* interleaving, and C4_Witness is such an interleaving.
C4_SharedGenerator ==
    \A t \in DOMAIN thr : Done(t) /\ thr[t].alone => thr[t].same

\* two generations ran interleaved, and one of them returned a list that is
\* not the list it returns alone
C4_Witness ==
    \E t \in DOMAIN thr :
        /\ \A u \in DOMAIN thr : Done(u)
        /\ ~thr[t].alone
        /\ ~thr[t].same

-----------------------------------------------------------------------------
(* SpecConfig: a process that builds one simulator from a configuration *)

Configs == {FullLocation} \cup {Lacking(f) : f \in LocationFields}

InitConfig ==
    /\ hashSalt = 0
    /\ rng = seed(SeedSpace)
    /\ clock = MaxClock
    /\ sims = [flood |-> NotConstructed, thermal |-> NotConstructed,
               wind |-> NotConstructed]
    /\ last = NoCall
    /\ ref = NoCall
    /\ thr = <<>>

\* no constructor was called yet
Fresh == \A k \in DOMAIN sims : sims[k] = NotConstructed

NextConfig ==
    \/ Fresh /\ \E config \in Configs : ConstructFlood(config)
    \/ Fresh /\ \E config \in Configs : ConstructThermal(config)
    \/ Fresh /\ \E config \in Configs : ConstructWind(config)
    \/ \E i \in FloodInputs, n \in {NameUnderscore, NamePlain}, d \in BOOLEAN :
           FloodSimulateScenario(i[1], i[2], n, d)
    \/ \E i \in WindInputs, d \in BOOLEAN :
           WindSimulateScenario(i[1], i[2], NamePlain, d)
    \/ \E i \in ThermalInputs, n \in {NameUnderscore, NamePlain}, d \in BOOLEAN :
           ThermalSimulateScenario(i[1], i[2], i[3], i[4], n, i[5], d)

SpecConfig == InitConfig /\ [][NextConfig]_vars

ConstructOps == {"FloodSimulator.__init__", "ThermalComfortSimulator.__init__",
                 "WindSimulator.__init__"}

IsConstruct(c) == c.op \in ConstructOps

\* C5: a constructor given a configuration that lacks one of area_km2,
\* center_lat, center_lng and elevation_avg raises the KeyError, and no
\* simulate_scenario of a simulator that was constructed raises a KeyError.
C5_ConstructionTimeErrors ==
    /\ IsConstruct(last) /\ last.args.config # FullLocation
           => last.out.raised = "KeyError"
    /\ IsSimulate(last) => last.out.raised # "KeyError"

-----------------------------------------------------------------------------
(* SpecDetail: the three simulators called with and without detailed output *)

InitDetail ==
    /\ hashSalt = 0
    /\ rng = seed(SeedSpace)
    /\ clock = MaxClock - 1
    /\ sims = [flood |-> Flood_init(FullLocation), thermal |-> Thermal_init(FullLocation),
               wind |-> Wind_init(FullLocation)]
    /\ last = NoCall
    /\ ref = NoCall
    /\ thr = <<>>

NextDetail ==
    \/ \E i \in FloodInputs \cup {<<5, 1>>}, d \in BOOLEAN :
           FloodSimulateScenario(i[1], i[2], NamePlain, d)
    \/ \E i \in WindInputs, d \in BOOLEAN :
           WindSimulateScenario(i[1], i[2], NamePlain, d)
    \/ \E i \in ThermalInputs, d \in BOOLEAN :
           ThermalSimulateScenario(i[1], i[2], i[3], i[4], NamePlain, i[5], d)

SpecDetail == InitDetail /\ [][NextDetail]_vars

\* the key of the points array in the result of a simulate_scenario
PointsKey(c) ==
    CASE c.op = "FloodSimulator.simulate_scenario" -> "flood_zones"
      [] c.op = "ThermalComfortSimulator.simulate_scenario" -> "comfort_map"
      [] c.op = "WindSimulator.simulate_scenario" -> "wind_field"

DetailKeys(c) == {PointsKey(c), "visualization"}

\* calls c and d of one simulate_scenario with the same arguments but the flag
SameButFlag(c, d) ==
    /\ IsSimulate(c) /\ IsSimulate(d)
    /\ c.op = d.op
    /\ [c.args EXCEPT !.detailed_output = TRUE] = [d.args EXCEPT !.detailed_output = TRUE]

\* C11: a result of simulate_scenario with detailed_output = false has neither
\* the points array nor the visualization block, one with detailed_output =
\* true has both, and all other blocks but the timestamp are the same with and
\* without the flag.
C11_DetailedFlag ==
    /\ IsSimulate(last) /\ last.out.raised = "none"
       => IF last.args.detailed_output
          THEN DetailKeys(last) \subseteq DOMAIN last.out.value
          ELSE DetailKeys(last) \cap DOMAIN last.out.value = {}
    /\ (/\ SameButFlag(last, ref)
        /\ ~last.args.detailed_output /\ ref.args.detailed_output
        /\ last.out.raised = "none" /\ ref.out.raised = "none")
       => /\ DOMAIN ref.out.value = DOMAIN last.out.value \cup DetailKeys(last)
          /\ \A k \in DOMAIN last.out.value \ {"computation_time"} :
                 last.out.value[k] = ref.out.value[k]

\* a flood scenario with water run without the flag after it was run with it
C11_Witness ==
    /\ SameButFlag(last, ref)
    /\ last.op = "FloodSimulator.simulate_scenario"
    /\ ~last.args.detailed_output /\ ref.args.detailed_output
    /\ last.out.raised = "none" /\ ref.out.raised = "none"
    /\ last.out.value.metrics.max_depth_m > 0
    /\ Len(ref.out.value.flood_zones) >= 5
    /\ "visualization" \in DOMAIN ref.out.value

-----------------------------------------------------------------------------
(* SpecWind: the wind model of one WindSimulator *)

\* wind_sim.calculate_wind_profile(height, u_ref); the speed returned is
\* recorded by name
WindCalculateProfile(height, u_ref) ==
    /\ Constructed("wind")
    /\ last' = [op |-> "WindSimulator.calculate_wind_profile",
                args |-> [height |-> height, u_ref |-> u_ref],
                out |-> Returned([wind_speed |->
                                     calculate_wind_profile(sims["wind"].value, height,
                                                            u_ref)])]
    /\ ref' \in Keep
    /\ UNCHANGED <<hashSalt, rng, clock, sims, thr>>

\* wind_sim.assess_pedestrian_comfort(wind_speed); the tuple returned is
\* recorded by the names simulate_scenario gives its parts
WindAssessComfort(wind_speed) ==
    /\ Constructed("wind")
    /\ last' = [op |-> "WindSimulator.assess_pedestrian_comfort",
                args |-> [wind_speed |-> wind_speed],
                out |-> Returned(
                    [pedestrian_comfort |-> assess_pedestrian_comfort(wind_speed)[1],
                     comfort_score |-> assess_pedestrian_comfort(wind_speed)[2],
                     comfort_description |-> assess_pedestrian_comfort(wind_speed)[3]])]
    /\ ref' \in Keep
    /\ UNCHANGED <<hashSalt, rng, clock, sims, thr>>

\* wind_sim.calculate_comfort_zones_distribution({'avg_urban_speed': avg_urban_speed})
WindComfortDistribution(avg_urban_speed) ==
    /\ Constructed("wind")
    /\ last' = [op |-> "WindSimulator.calculate_comfort_zones_distribution",
                args |-> [avg_urban_speed |-> avg_urban_speed],
                out |-> Returned(calculate_comfort_zones_distribution(
                                     [avg_urban_speed |-> avg_urban_speed]))]
    /\ ref' \in Keep
    /\ UNCHANGED <<hashSalt, rng, clock, sims, thr>>

\* reference speeds [0.1 m/s]: negative, calm, and one per band of comfort
SpeedValues == {-50, 0, 50, 150}
\* directions [degree] around the axes and the thresholds of 15 and 30 degrees
DirectionValues == {0, 15, 16, 30, 31, 45, 90, 345, 350, 360}
\* heights [0.1 m]: below and at the roughness length, 0.1 m above it, the
\* pedestrian's and the reference height
HeightValues == {-5, 0, 3, 4, 15, 100}
\* speeds [0.000001 m/s] around the thresholds of the comfort criteria and of
\* the comfort distribution
ComfortSpeedValues ==
    {-1000000, 0, 2999999, 3000000, 3500000, 3999999, 4000000, 4999999, 5000000,
     5999999, 6000000, 7999999, 8000000, 9000000, 11999999, 12000000, 30000000}

InitWind ==
    /\ hashSalt = 0
    /\ rng = seed(SeedSpace)
    /\ clock = MaxClock
    /\ sims = [flood |-> NotConstructed, thermal |-> NotConstructed,
               wind |-> Wind_init(FullLocation)]
    /\ last = NoCall
    /\ ref = NoCall
    /\ thr = <<>>

\* every direction at 5.0 m/s, every speed along an axis and across the axes
NextWind ==
    \/ \E s \in SpeedValues, d \in DirectionValues :
           /\ s = 50 \/ d \in {0, 45}
           /\ WindSimulateScenario(s, d, <<"a">>, FALSE)
    \/ \E s \in SpeedValues \ {0} :
           WindSimulateScenario(s, 0, <<"a">>, TRUE)
    \/ \E v \in ComfortSpeedValues : WindAssessComfort(v)

SpecWind == InitWind /\ [][NextWind]_vars

\* thermal_sim.define_urban_zones()
ThermalDefineUrbanZones ==
    /\ Constructed("thermal")
    /\ last' = [op |-> "ThermalComfortSimulator.define_urban_zones",
                args |-> <<>>,
                out |-> Returned(define_urban_zones)]
    /\ ref' \in Keep
    /\ UNCHANGED <<hashSalt, rng, clock, sims, thr>>

\* thermal_sim.calculate_pmv_detailed(ta, tr, va, rh, met, clo, pa)
ThermalPmvDetailed(ta, tr, va, rh, met, clo, pa) ==
    /\ Constructed("thermal")
    /\ last' = [op |-> "ThermalComfortSimulator.calculate_pmv_detailed",
                args |-> [ta |-> ta, tr |-> tr, va |-> va, rh |-> rh, met |-> met,
                          clo |-> clo, pa |-> pa],
                out |-> calculate_pmv_detailed(ta, tr, va, rh, met, clo, pa)]
    /\ ref' \in Keep
    /\ UNCHANGED <<hashSalt, rng, clock, sims, thr>>

\* (ta [0.1 C], tr [0.1 C], va [0.1 m/s], rh [percent], pa [Pa] or <<>>) for
\* calculate_pmv_detailed: a room, heat, a negative wind speed, and the
\* temperature at which the Magnus formula has no value
PmvDetailedInputs ==
    {<<250, 250, 1, 50, <<>>>>, <<400, 600, 30, 100, <<>>>>, <<0, 0, -10, 0, <<>>>>,
     <<-2373, 200, 10, 50, <<>>>>, <<-2373, 200, 10, 50, <<1000>>>>}

\* SpecParts: the wind profile, the comfort distribution, the thermal zones and
\* the detailed PMV on their own
InitParts ==
    /\ hashSalt = 0
    /\ rng = seed(SeedSpace)
    /\ clock = MaxClock
    /\ sims = [flood |-> NotConstructed, thermal |-> Thermal_init(FullLocation),
               wind |-> Wind_init(FullLocation)]
    /\ last = NoCall
    /\ ref = NoCall
    /\ thr = <<>>

NextParts ==
    \/ \E h \in HeightValues, s \in SpeedValues \cup {1, 37} : WindCalculateProfile(h, s)
    \/ \E v \in ComfortSpeedValues : WindComfortDistribution(v)
    \/ ThermalDefineUrbanZones
    \/ \E i \in PmvDetailedInputs :
           ThermalPmvDetailed(i[1], i[2], i[3], i[4], 120, 70, i[5])

SpecParts == InitParts /\ [][NextParts]_vars

IsWindScenario(c) == c.op = "WindSimulator.simulate_scenario"

\* the angle between direction d and the nearest of the four street axes, on
\* the compass circle
AxisAngle(d) ==
    LET on_circle(a) == Min(Abs(d - a), 360 - Abs(d - a))
    IN  Min(Min(on_circle(0), on_circle(90)), Min(on_circle(180), on_circle(270)))

\* the factor [hundredths] the specification gives a direction
FactorOnCircle(d) ==
    IF AxisAngle(d) <= 15 THEN 115 ELSE IF AxisAngle(d) <= 30 THEN 105 ELSE 90

\* the four urban speeds [0.000001 m/s] before the directional factor [hundredths]
SpeedsBeforeFactor(self, wind_speed_ref) ==
    [max_tunnel_speed |-> wind_speed_ref * 1200,
     min_wake_speed |-> wind_speed_ref * 700,
     avg_urban_speed |-> wind_speed_ref * 900,
     pedestrian_speed |-> calculate_wind_profile(self, self.pedestrian_height,
                                                 wind_speed_ref)]

\* C12: for every direction d in [0, 360] the factor is 1.15 within 15 degrees
\* of a street axis, 1.05 within 30 degrees and 0.9 otherwise, the angle taken
\* on the compass circle (350 and 360 degrees are within 15 degrees of north);
\* the four urban speeds are multiplied by the factor.
C12_DirectionalFactor ==
    IsWindScenario(last) /\ 0 <= last.args.direction /\ last.args.direction <= 360
    => LET e == last.locals.urban_effects
           before == SpeedsBeforeFactor(sims["wind"].value, last.args.wind_speed_ref)
       IN  /\ e.directional_factor = FactorOnCircle(last.args.direction)
           /\ \A k \in DOMAIN before : e[k] = before[k] * e.directional_factor

\* C13: for all inputs to WindSimulator.simulate_scenario, a negative
\* reference speed included, every wind speed of the result is >= 0: max_speed,
\* min_speed, avg_urban_speed and pedestrian_speed of wind_field_analysis and
\* the speed of every point of wind_field.
C13_NonNegativeSpeeds ==
    IsWindScenario(last) /\ last.out.raised = "none"
    => LET result == last.out.value
           a == result.wind_field_analysis
       IN  /\ a.max_speed >= 0 /\ a.min_speed >= 0
           /\ a.avg_urban_speed >= 0 /\ a.pedestrian_speed >= 0
           /\ last.args.detailed_output
              => \A i \in DOMAIN result.wind_field : result.wind_field[i].speed >= 0


IsWindProfile(c) == c.op = "WindSimulator.calculate_wind_profile"

\* the identity of C14 as stated, for every reference speed: at the reference
\* height calculate_wind_profile returns u_ref (the speed is in 0.0001 m/s,
\* u_ref in 0.1 m/s), and a height at or below z0 raises no error and gives the
\* speed of the height z0 + 0.1
C14_IdentityForEverySpeed ==
    /\ IsWindProfile(last) /\ last.args.height = sims["wind"].value.reference_height
       => last.out.raised = "none"
          /\ last.out.value.wind_speed = last.args.u_ref * 1000
    /\ (/\ IsWindProfile(last) /\ IsWindProfile(ref)
        /\ last.args.height <= sims["wind"].value.surface_roughness
        /\ ref.args.height = sims["wind"].value.surface_roughness + 1
        /\ ref.args.u_ref = last.args.u_ref)
       => last.out.raised = "none" /\ last.out.value = ref.out.value

\* C14: calculate_wind_profile(reference_height, u_ref) returns u_ref for every
\* u_ref >= 0 and 0 for every u_ref < 0 (the result is floored at 0); a height
\* at or below the roughness length z0 is replaced by z0 + 0.1, so the call
\* raises no error and returns what the height z0 + 0.1 returns.
C14_IdentityAtReferenceHeight ==
    /\ IsWindProfile(last) /\ last.args.height = sims["wind"].value.reference_height
       => last.out.raised = "none"
          /\ last.out.value.wind_speed =
                 IF last.args.u_ref >= 0 THEN last.args.u_ref * 1000 ELSE 0
    /\ (/\ IsWindProfile(last) /\ IsWindProfile(ref)
        /\ last.args.height <= sims["wind"].value.surface_roughness
        /\ ref.args.height = sims["wind"].value.surface_roughness + 1
        /\ ref.args.u_ref = last.args.u_ref)
       => last.out.raised = "none" /\ last.out.value = ref.out.value

\* 3.7 m/s at the reference height gave 3.7 m/s, then a height below the
\* roughness length gave a positive speed
C14_Witness ==
    /\ IsWindProfile(last) /\ IsWindProfile(ref)
    /\ ref.args.height = sims["wind"].value.reference_height
    /\ ref.args.u_ref = 37 /\ ref.out.value.wind_speed = 37000
    /\ last.args.height < sims["wind"].value.surface_roughness
    /\ last.out.raised = "none" /\ last.out.value.wind_speed > 0


IsWindComfort(c) == c.op = "WindSimulator.assess_pedestrian_comfort"

\* the score the criteria give a speed [0.000001 m/s]: one more than the
\* number of the thresholds 4, 6, 8 and 12 m/s the speed has reached
LawsonScore(v) ==
    1 + Cardinality({t \in {4000000, 6000000, 8000000, 12000000} : v >= t})

\* the levels COMFORTABLE, ACCEPTABLE, UNSUITABLE, DANGEROUS and EXTREMELY
\* DANGEROUS, as the code spells them
LawsonLevel ==
    <<"KOMFORTOWO", "AKCEPTOWALNE", "NIEWLASCIWE", "NIEBEZPIECZNE",
      "EKSTREMALNIE NIEBEZPIECZNE">>

IsUrbanZones(c) == c.op = "ThermalComfortSimulator.define_urban_zones"
IsComfortDistribution(c) == c.op = "WindSimulator.calculate_comfort_zones_distribution"

\* the sum of f[k] over the keys of the set
RECURSIVE SumOver(_, _)
SumOver(f, keys) ==
    IF keys = {} THEN 0
    ELSE LET k == CHOOSE x \in keys : TRUE
         IN  f[k] + SumOver(f, keys \ {k})

\* C16: the area_percent of the five zones of define_urban_zones sum to 100,
\* and the four percentages of calculate_comfort_zones_distribution sum to 100
\* for every average urban speed (in each of its five bands).
C16_AreaShareSums ==
    /\ IsUrbanZones(last)
       => LET zones == last.out.value
          IN  /\ Cardinality(DOMAIN zones) = 5
              /\ SumOver([k \in DOMAIN zones |-> zones[k].area_percent], DOMAIN zones) = 100
    /\ IsComfortDistribution(last)
       => /\ last.out.raised = "none"
          /\ Cardinality(DOMAIN last.out.value) = 4
          /\ SumOver(last.out.value, DOMAIN last.out.value) = 100

\* the distribution of the band from 12 m/s on, after the five zones were read
C16_Witness ==
    /\ IsUrbanZones(ref) /\ Cardinality(DOMAIN ref.out.value) = 5
    /\ IsComfortDistribution(last) /\ last.args.avg_urban_speed >= 12000000
    /\ last.out.value.niebezpieczne = 55

-----------------------------------------------------------------------------
(* SpecThermal: the comfort model of one ThermalComfortSimulator *)

\* thermal_sim.calculate_ppd_from_pmv(pmv); the share returned is recorded by
\* name
ThermalPpdFromPmv(pmv) ==
    /\ Constructed("thermal")
    /\ last' = [op |-> "ThermalComfortSimulator.calculate_ppd_from_pmv",
                args |-> [pmv |-> pmv],
                out |-> Returned([ppd |-> calculate_ppd_from_pmv(pmv)])]
    /\ ref' \in Keep
    /\ UNCHANGED <<hashSalt, rng, clock, sims, thr>>

\* votes [0.000001]: neutral, next to neutral, the limits of the scale, and
\* votes beyond them
PmvValues ==
    {-9000000, -3000000, -500000, 0, 1, 500000, 1234567, 3000000, 3500000,
     4000000, 9000000}

\* (ta [0.1 C], rh [percent], va [0.1 m/s], solar_rad [W/m2], season): the
\* summer day of the test, heat, frost, a mild calm day in two seasons of the
\* table and in a season the table does not have, a negative wind speed, and
\* a warm night on which the vote of street_commercial is 0.99915
ThermalCases ==
    {<<250, 60, 15, 400, "summer">>, <<400, 50, 10, 900, "summer">>,
     <<-200, 50, 30, 0, "winter">>, <<220, 50, 0, 0, "spring">>,
     <<220, 50, 0, 0, "autumn">>, <<220, 50, 0, 0, "monsoon">>,
     <<250, 60, -15, 400, "summer">>, <<279, 50, 0, 0, "summer">>}

\* what pmv_ppd() and utci() of pythermalcomfort may answer for a zone on the
\* heat day: a vote within the scale and votes the library does not limit to
\* it; pmv [0.000001], ppd [0.001 percent], utci [0.000001 C]
LibraryAnswers ==
    {[pmv_result |-> [pmv |-> 1800000, ppd |-> 67000], utci |-> 38000000],
     [pmv_result |-> [pmv |-> 3400000, ppd |-> 99900], utci |-> 41000000]}

InitThermal ==
    /\ hashSalt = 0
    /\ rng = seed(SeedSpace)
    /\ clock = MaxClock
    /\ sims = [flood |-> NotConstructed, thermal |-> Thermal_init(FullLocation),
               wind |-> NotConstructed]
    /\ last = NoCall
    /\ ref = NoCall
    /\ thr = <<>>

\* the cases run with their comfort map: the summer day and the heat
ThermalMapCases == {c \in ThermalCases : c[3] > 0 /\ c[4] > 0}

NextThermal ==
    \/ \E c \in ThermalCases :
           ThermalSimulateScenario(c[1], c[2], c[3], c[4], NamePlain, c[5], FALSE)
    \/ \E c \in ThermalMapCases :
           ThermalSimulateScenario(c[1], c[2], c[3], c[4], NamePlain, c[5], TRUE)
    \/ \E p \in PmvValues : ThermalPpdFromPmv(p)
    \/ \E library \in LibraryAnswers, d \in BOOLEAN :
           ThermalSimulateScenarioLibrary(400, 50, 10, 900, NamePlain, "summer", d, library)

SpecThermal == InitThermal /\ [][NextThermal]_vars

IsThermalScenario(c) == c.op = "ThermalComfortSimulator.simulate_scenario"
IsPpdFromPmv(c) == c.op = "ThermalComfortSimulator.calculate_ppd_from_pmv"

C18_PmvRange ==
    IsThermalScenario(last) /\ last.out.raised = "none"
    => LET result == last.out.value
       IN  /\ \A z \in DOMAIN result.zone_analysis :
                  /\ -300 <= result.zone_analysis[z].comfort_indices.pmv
                  /\ result.zone_analysis[z].comfort_indices.pmv <= 300
           /\ last.args.detailed_output
              => \A i \in DOMAIN result.comfort_map :
                     /\ -300 <= result.comfort_map[i].pmv
                     /\ result.comfort_map[i].pmv <= 300


\* the zones of a result whose comfort level is level
ZonesAt(result, level) ==
    {z \in DOMAIN result.zone_analysis :
         result.zone_analysis[z].assessment.comfort_level = level}

\* C19: for all inputs the city comfort score is the sum over the five zones
\* of comfort_score * area_percent / 100 (here in hundredths), it lies in
\* [1, 5], it is 5 exactly when every zone is EXCELLENT (DOSKONALY) and 1
\* exactly when every zone is UNACCEPTABLE (NIEAKCEPTOWALNY).
C19_CityComfortScore ==
    IsThermalScenario(last) /\ last.out.raised = "none"
    => LET result == last.out.value
           zones == result.zone_analysis
           score == result.overall_metrics.city_comfort_score
       IN  /\ Cardinality(DOMAIN zones) = 5
           /\ score = SumOver([z \in DOMAIN zones |->
                                   zones[z].assessment.comfort_score
                                       * zones[z].area_percent],
                              DOMAIN zones)
           /\ 100 <= score /\ score <= 500
           /\ score = 500 <=> ZonesAt(result, "DOSKONALY") = DOMAIN zones
           /\ score = 100 <=> ZonesAt(result, "NIEAKCEPTOWALNY") = DOMAIN zones

\* a mild day scored 5 after a heat day scored between 1 and 2 with four of
\* its zones UNACCEPTABLE
C19_Witness ==
    /\ IsThermalScenario(last) /\ IsThermalScenario(ref)
    /\ last.out.value.overall_metrics.city_comfort_score = 500
    /\ ZonesAt(last.out.value, "DOSKONALY") = DOMAIN last.out.value.zone_analysis
    /\ ref.out.value.overall_metrics.city_comfort_score \in 101..199
    /\ Cardinality(ZonesAt(ref.out.value, "NIEAKCEPTOWALNY")) = 4

KnownSeasons == {"winter", "spring", "summer", "autumn"}

\* clothing insulation [0.01 clo] and metabolic rate [0.01 met] by season
SeasonTable ==
    [winter |-> <<200, 140>>, spring |-> <<80, 120>>, summer |-> <<40, 100>>,
     autumn |-> <<100, 130>>]

\* C20: simulate_scenario with a season that is none of winter, spring,
\* summer and autumn raises no error, uses 0.7 clo and 1.2 met and echoes them
\* in the parameters of the result; with a known season it uses and echoes
\* the values of the table.
C20_UnknownSeason ==
    IsThermalScenario(last)
    => LET a == last.args
           pair == IF a.season \in KnownSeasons THEN SeasonTable[a.season]
                   ELSE <<70, 120>>
       IN  /\ last.out.raised = "none"
           /\ last.out.value.parameters.clothing_insulation_clo = pair[1]
           /\ last.out.value.parameters.metabolic_rate_met = pair[2]
           /\ last.out.value.parameters.season = a.season
           /\ "pythermalcomfort" \notin DOMAIN a
              => last.out.value.zone_analysis =
                     thermal_zone_results(a.ta, a.rh, a.va, a.solar_rad, pair[2], pair[1])

\* the season "monsoon" ran with the defaults after autumn ran with 1.0 clo
\* and 1.3 met, and the two results differ in a zone
C20_Witness ==
    /\ IsThermalScenario(last) /\ IsThermalScenario(ref)
    /\ last.args.season \notin KnownSeasons
    /\ last.out.raised = "none"
    /\ last.out.value.parameters.clothing_insulation_clo = 70
    /\ last.out.value.parameters.metabolic_rate_met = 120
    /\ ref.args.season = "autumn"
    /\ ref.out.value.parameters.clothing_insulation_clo = 100
    /\ ref.out.value.parameters.metabolic_rate_met = 130
    /\ ref.out.value.zone_analysis # last.out.value.zone_analysis

-----------------------------------------------------------------------------
(* The number of points of the detailed results *)

Clamp(x, lo, hi) == Max(lo, Min(hi, x))

\* int(np.var(p) * 50 + 40) of the votes p [0.01] of the five zones of a result
VarianceCount(zones) ==
    LET p == [z \in DOMAIN zones |-> zones[z].comfort_indices.pmv]
        squares == SumOver([z \in DOMAIN p |-> p[z] * p[z]], DOMAIN p)
        total == SumOver(p, DOMAIN p)
    IN  ((5 * squares - total * total) * 50) \div 250000 + 40

\* the numbers of points the three generators give over ranges of inputs:
\* rainfall 0 .. 120 mm/h for one hour, reference speeds -1.0 .. 22.0 m/s, and
\* air temperatures on a calm spring day under a radiation of 200000 W/m2
\* that sets the zones' votes apart
FloodPointCounts ==
    {flood_num_zones(
         calculate_flood_depths(
             calculate_effective_rainfall(Flood_init(FullLocation).value, r, 1)
                 .total_excess_mm).flooded_area_pct) : r \in 0..120}

WindPointCounts == {wind_num_points(s) : s \in -10..220}

ThermalCountTemperatures ==
    {-900, -515, -503, -493, -486, -478, -472, -464, -458, -452, -447, -442, -438,
     -433, -428, -423, -418, -413, -409, -405, -400, -392, -386, -380, -375, -369,
     -365, -361, -356, -351, -347, -344, -339, -336, -333, -329, -325, -322, -319,
     -316, -312, 220, 250, 400}

ThermalPointCounts ==
    {thermal_num_points(thermal_zone_results(ta, 50, 0, 200000, 120, 80)) :
         ta \in ThermalCountTemperatures}

\* the number of points of a detailed result is the clamped magnitude of its
\* scenario, and particle_count of the wind visualization is the length of
\* wind_field
CountsAsComputed ==
    IsSimulate(last) /\ last.out.raised = "none" /\ last.args.detailed_output
    => LET result == last.out.value
       IN  /\ IsFloodScenario(last)
              => Len(result.flood_zones) =
                     Clamp(TruncDiv(last.locals.flooded_area_pct * 8, 10000), 5, 50)
           /\ IsThermalScenario(last)
              => Len(result.comfort_map) =
                     Clamp(VarianceCount(result.zone_analysis), 30, 80)
           /\ IsWindScenario(last)
              => /\ Len(result.wind_field) =
                        Clamp(TruncDiv(last.args.wind_speed_ref * 5, 10), 20, 100)
                 /\ result.visualization.particle_count = Len(result.wind_field)

\* the statement of C21 with every value between the stated minimum and
\* maximum attainable for each simulator: 5..50, 30..80 and 20..100
C21_EveryCountAttainable ==
    /\ CountsAsComputed
    /\ FloodPointCounts = 5..50
    /\ 30..80 \subseteq ThermalPointCounts
    /\ WindPointCounts = 20..100

\* C21: with detailed output the number of points is
\* clamp(int(flooded_area_percent * 0.8), 5, 50) for flood (5 points with no
\* flooding), clamp(int(variance of the zones' PMV * 50 + 40), 30, 80) for
\* thermal and clamp(int(reference speed * 5), 20, 100) for wind, and the wind
\* particle_count is the length of wind_field.  Every number in 5..50 is
\* attained for flood and every number in 20..100 for wind; for thermal the
\* variance is not negative, so the number is never below 40, and every
\* number in 40..80 is attained.
C21_PointCounts ==
    /\ CountsAsComputed
    /\ FloodPointCounts = 5..50
    /\ ThermalPointCounts = 40..80
    /\ WindPointCounts = 20..100
    /\ IsThermalScenario(last) /\ last.out.raised = "none" /\ last.args.detailed_output
       => Len(last.out.value.comfort_map) >= 40

\* a rainfall without flooding gave 5 points after a wind field was counted
\* by its particle_count
C21_Witness ==
    /\ IsFloodScenario(last) /\ last.args.detailed_output
    /\ last.out.raised = "none"
    /\ last.locals.flooded_area_pct = 0
    /\ Len(last.out.value.flood_zones) = 5
    /\ IsWindScenario(ref) /\ ref.args.detailed_output
    /\ ref.out.value.visualization.particle_count = Len(ref.out.value.wind_field)
    /\ Len(ref.out.value.wind_field) > 20


IsPmvDetailed(c) == c.op = "ThermalComfortSimulator.calculate_pmv_detailed"

\* C22: for every numeric input calculate_pmv_detailed completes its 10
\* iterations and returns a vote in [-3, 3] without raising an error.
C22_DetailedPmvReturns ==
    IsPmvDetailed(last)
    => /\ last.out.raised = "none"
       /\ -3000000 <= last.out.value /\ last.out.value <= 3000000

-----------------------------------------------------------------------------
(* SpecZone: calculate_zone_comfort on one zone *)

\* thermal_sim.calculate_zone_comfort(zone, ta, rh, va, solar_rad, met, clo)
\* for the zone zone_id of define_urban_zones; library is <<>> where
\* pythermalcomfort is not installed and <<answer>> where it answers
ThermalCalculateZoneComfort(zone_id, ta, rh, va, solar_rad, met, clo, library) ==
    /\ Constructed("thermal")
    /\ last' = [op |-> "ThermalComfortSimulator.calculate_zone_comfort",
                args |-> [zone_id |-> zone_id, ta |-> ta, rh |-> rh, va |-> va,
                          solar_rad |-> solar_rad, met |-> met, clo |-> clo,
                          pythermalcomfort |-> library],
                out |-> Returned(
                    IF library = <<>>
                    THEN calculate_zone_comfort(define_urban_zones[zone_id], ta, rh, va,
                                                solar_rad, met, clo)
                    ELSE calculate_zone_comfort_library(
                             define_urban_zones[zone_id], ta, rh, va, solar_rad, met,
                             clo, library[1].pmv_result, library[1].utci))]
    /\ ref' \in Keep
    /\ UNCHANGED <<hashSalt, rng, clock, sims, thr>>

\* an answer of pythermalcomfort with the vote pmv [0.000001]
LibraryVote(pmv) ==
    [pmv_result |-> [pmv |-> pmv, ppd |-> calculate_ppd_from_pmv(pmv)],
     utci |-> 26000000]

\* votes [0.000001] at and next to the thresholds of the classification, of
\* both signs
ThresholdVotes ==
    LET v == {0, 499999, 500000, 999999, 1000000, 1499999, 1500000, 1999999,
              2000000, 3000000}
    IN  v \cup {-x : x \in v}

NextZone ==
    \/ \E z \in DOMAIN define_urban_zones, c \in ThermalCases :
           ThermalCalculateZoneComfort(z, c[1], c[2], c[3], c[4],
                                       activity_values(c[5]), clothing_values(c[5]),
                                       <<>>)
    \/ \E v \in ThresholdVotes :
           ThermalCalculateZoneComfort("rynek_main", 250, 60, 15, 400, 100, 40,
                                       <<LibraryVote(v)>>)

SpecZone == InitThermal /\ [][NextZone]_vars

IsZoneComfort(c) == c.op = "ThermalComfortSimulator.calculate_zone_comfort"

\* the vote [0.000001] calculate_zone_comfort classifies in the call c: the
\* library's, or that of calculate_pmv_simple for the zone's microclimate
VoteOf(c) ==
    IF c.args.pythermalcomfort # <<>> THEN c.args.pythermalcomfort[1].pmv_result.pmv
    ELSE LET zone == define_urban_zones[c.args.zone_id]
             local_temp == (c.args.ta + zone.temp_offset) * 100000
         IN  calculate_pmv_simple(
                 local_temp,
                 estimate_mean_radiant_temperature(local_temp, c.args.solar_rad,
                                                   zone.surface_type),
                 c.args.va * zone.wind_reduction,
                 Max(20, Min(95, c.args.rh + zone.humidity_offset)),
                 c.args.met, c.args.clo)

\* the score of a vote [0.000001]: 5 less the number of the thresholds 0.5,
\* 1.0, 1.5 and 2.0 its magnitude has reached
ThermalScore(pmv) ==
    5 - Cardinality({t \in {500000, 1000000, 1500000, 2000000} : Abs(pmv) >= t})

\* the levels UNACCEPTABLE, POOR, ACCEPTABLE, GOOD and EXCELLENT by score, as
\* the code spells them
ThermalLevel ==
    <<"NIEAKCEPTOWALNY", "SLABY", "AKCEPTOWALNY", "DOBRY", "DOSKONALY">>

\* C23: a zone is classified by |PMV| as EXCELLENT (5) below 0.5, GOOD (4)
\* below 1.0, ACCEPTABLE (3) below 1.5, POOR (2) below 2.0 and UNACCEPTABLE
\* (1) from 2.0 on; the score is in 1..5, does not increase with |PMV| and is
\* the same for PMV and -PMV.
C23_ThermalClassification ==
    /\ IsZoneComfort(last)
       => LET a == last.out.value.assessment
          IN  /\ a.comfort_score \in 1..5
              /\ a.comfort_score = ThermalScore(VoteOf(last))
              /\ a.comfort_level = ThermalLevel[a.comfort_score]
    /\ IsZoneComfort(last) /\ IsZoneComfort(ref)
       => LET a == last.out.value.assessment
              b == ref.out.value.assessment
          IN  /\ Abs(VoteOf(last)) <= Abs(VoteOf(ref))
                 => a.comfort_score >= b.comfort_score
              /\ VoteOf(last) = -VoteOf(ref)
                 => a.comfort_score = b.comfort_score /\ a.comfort_level = b.comfort_level

\* the vote -1.0 was classified ACCEPTABLE after the vote 1.0 was
C23_Witness ==
    /\ IsZoneComfort(last) /\ IsZoneComfort(ref)
    /\ VoteOf(last) = -1000000 /\ VoteOf(ref) = 1000000
    /\ last.out.value.assessment.comfort_level = "AKCEPTOWALNY"
    /\ ref.out.value.assessment.comfort_score = 3


\* the zones of a result whose reported vote [0.01] satisfies P
ZonesWhere(result, P(_)) ==
    {z \in DOMAIN result.zone_analysis : P(result.zone_analysis[z].comfort_indices.pmv)}

ReportedComfortable(pmv) == Abs(pmv) < 100
ReportedHeat(pmv) == pmv > 200
ReportedCold(pmv) == pmv < -200

\* C24: comfort_zones_percent (here in 0.1 percent) is 100 * (number of the
\* zones with |PMV| < 1.0) / 5, not weighted by area, and so one of 0, 20, 40,
\* 60, 80, 100; heat_stress_zones is the number of the zones with PMV > 2 and
\* cold_stress_zones the number with PMV < -2, PMV being the zone's reported
\* vote; their sum is at most 5 and at most the number of UNACCEPTABLE zones.
C24_CityCounts ==
    IsThermalScenario(last) /\ last.out.raised = "none"
    => LET result == last.out.value
           m == result.overall_metrics
       IN  /\ m.comfort_zones_percent =
                  (1000 * Cardinality(ZonesWhere(result, ReportedComfortable))) \div 5
           /\ m.comfort_zones_percent \in {0, 200, 400, 600, 800, 1000}
           /\ m.heat_stress_zones = Cardinality(ZonesWhere(result, ReportedHeat))
           /\ m.cold_stress_zones = Cardinality(ZonesWhere(result, ReportedCold))
           /\ m.heat_stress_zones + m.cold_stress_zones <= 5
           /\ m.heat_stress_zones + m.cold_stress_zones
                  <= Cardinality(ZonesAt(result, "NIEAKCEPTOWALNY"))

\* heat stressed four zones, all of them UNACCEPTABLE, after a warm night had
\* some but not all zones comfortable
C24_Witness ==
    /\ IsThermalScenario(last) /\ IsThermalScenario(ref)
    /\ last.out.value.overall_metrics.heat_stress_zones = 4
    /\ Cardinality(ZonesAt(last.out.value, "NIEAKCEPTOWALNY")) = 4
    /\ last.out.value.overall_metrics.comfort_zones_percent = 0
    /\ ref.out.value.overall_metrics.comfort_zones_percent \in {200, 400, 600, 800}


\* C28: in every thermal result a zone is counted in comfort_zones_percent
\* (here in 0.1 percent) exactly when its comfort level is EXCELLENT or GOOD
\* (comfort_score >= 4), and a zone counted as heat-stressed or cold-stressed
\* is UNACCEPTABLE: the classification of the unrounded vote and the counts of
\* the vote rounded to 2 decimals agree.
C28_ClassificationAndCounts ==
    IsThermalScenario(last) /\ last.out.raised = "none"
    => LET result == last.out.value
           zones == result.zone_analysis
           good == {z \in DOMAIN zones : zones[z].assessment.comfort_score >= 4}
       IN  /\ ZonesWhere(result, ReportedComfortable) = good
           /\ result.overall_metrics.comfort_zones_percent
                  = (1000 * Cardinality(good)) \div 5
           /\ ZonesWhere(result, ReportedHeat) \cup ZonesWhere(result, ReportedCold)
                  \subseteq ZonesAt(result, "NIEAKCEPTOWALNY")


\* C25: in every detailed flood result, that of a scenario without flooding
\* (max_depth = 0) included, every point of flood_zones has depth_m <=
\* max_depth_m of the scenario and flow_velocity <= peak_flow_velocity_ms
\* (depths in 0.001 m, velocities in 0.01 m/s).
C25_PointDepthCap ==
    IsFloodScenario(last) /\ last.out.raised = "none" /\ last.args.detailed_output
    => LET result == last.out.value
       IN  \A i \in DOMAIN result.flood_zones :
               /\ result.flood_zones[i].depth_m <= result.metrics.max_depth_m
               /\ result.flood_zones[i].flow_velocity
                      <= result.metrics.peak_flow_velocity_ms


-----------------------------------------------------------------------------
(* Claims about the impact assessment of a flood scenario, under SpecFlood *)

\* flooded_area_km2 * 1e6 * (max_depth * 0.4) * 10, cut to an integer
\* (flooded_area_m2 in m2, max_depth in 0.00001 m)
VolumeTimesTen(c) ==
    MulDivParts(c.locals.flooded_area_m2, c.locals.max_depth, 25000).q

\* C26: for every scenario on a simulator with positive area,
\* 0 <= buildings_at_risk <= buildings_total = int(area_km2 * 350 * 0.25),
\* affected_population = 3 * buildings_at_risk, buildings_at_risk =
\* min(int(flooded_area_km2 * 350 * 0.6), buildings_total), the economic damage
\* is buildings_at_risk * 50000 + volume_m3 * 10 with volume_m3 =
\* flooded_area_km2 * 1e6 * max_depth * 0.4; a scenario with zero excess has
\* zero buildings at risk, zero affected population and zero damage.
C26_FloodImpactBounds ==
    (IsFloodScenario(last) /\ sims["flood"].value.area_km2 > 0)
    => LET impact == last.out.value.impact_assessment
           area_km2 == sims["flood"].value.area_km2
           \* flooded_area_km2 * 350 * 0.6 = flooded_area_m2 * 21 / 100000
           flooded_buildings == (last.locals.flooded_area_m2 * 21) \div 100000
       IN  /\ 0 <= impact.buildings_at_risk
           /\ impact.buildings_at_risk <= impact.buildings_total
           /\ impact.buildings_total = (area_km2 * 350 * 25) \div 100
           /\ impact.affected_population = 3 * impact.buildings_at_risk
           /\ impact.buildings_at_risk
                  = Min(flooded_buildings, impact.buildings_total)
           /\ impact.economic_damage_pln
                  = impact.buildings_at_risk * 50000 + VolumeTimesTen(last)
           /\ last.locals.total_excess_mm <= 0
              => /\ impact.buildings_at_risk = 0
                 /\ impact.affected_population = 0
                 /\ impact.economic_damage_pln = 0

\* a flood over 2.25 km2 of the 5 km2: 472 buildings lie in the water and the
\* count is cut to the 437 buildings of the town
C26_Witness ==
    /\ IsFloodScenario(last)
    /\ last.args.rainfall_mm_h = 73
    /\ last.args.duration_h = 2
    /\ last.out.value.impact_assessment.buildings_total = 437
    /\ last.out.value.impact_assessment.buildings_at_risk = 437
    /\ last.out.value.impact_assessment.affected_population = 1311
    /\ last.out.value.impact_assessment.economic_damage_pln = 24550000


-----------------------------------------------------------------------------
(* Claims about calm wind, under SpecWind *)

\* C27: simulate_scenario of the WindSimulator returns a result without
\* raising an error for every reference wind speed >= 0 and every direction,
\* a reference speed of exactly 0 included.
C27_NoFailureOnCalmWind ==
    (IsWindScenario(last) /\ last.args.wind_speed_ref >= 0)
    => last.out.raised = "none"


-----------------------------------------------------------------------------
(* The frame of simulate_scenario, under SpecDetail *)

\* what a step that is a call of simulate_scenario writes
FrameOfSimulate ==
    IsSimulate(last')
    => /\ sims' = sims
       /\ hashSalt' = hashSalt
       /\ thr' = thr
       /\ IF last'.args.detailed_output
          THEN rng'.seed \in 0..(SeedSpace - 1) /\ rng'.pos > 0
          ELSE rng' = rng

\* C29: simulate_scenario of each simulator leaves the simulator's config and
\* all its calibration attributes unchanged; the only state outside its result
\* that it writes is the process-wide random generator, which it reseeds and
\* advances when detailed_output is true and leaves unchanged when
\* detailed_output is false.
C29_FrameOfSimulateScenario == [][FrameOfSimulate]_vars

\* a call without detailed output has come back after one with it: the
\* generator is still where the detailed call left it
C29_Witness ==
    /\ IsSimulate(ref) /\ ref.args.detailed_output
    /\ IsSimulate(last) /\ ~last.args.detailed_output
    /\ rng.seed \in 0..(SeedSpace - 1)
    /\ rng.pos > 0
    /\ sims = [flood |-> Flood_init(FullLocation),
               thermal |-> Thermal_init(FullLocation),
               wind |-> Wind_init(FullLocation)]


-----------------------------------------------------------------------------
(* Claims about the evacuation flag of a flood scenario, under SpecFlood *)

\* C30: in every flood result evacuation_needed is true exactly when
\* max_depth > 0.5 m; whenever it is true the risk level is WYSOKIE or
\* KRYTYCZNE (risk_score >= 4), and whenever the risk level is MINIMALNE,
\* NISKIE or UMIARKOWANE it is false.
C30_EvacuationConsistency ==
    IsFloodScenario(last)
    => LET result == last.out.value
           evacuation_needed == result.impact_assessment.evacuation_needed
       IN  /\ evacuation_needed <=> last.locals.max_depth > 50000
           /\ evacuation_needed
              => /\ result.metrics.risk_level \in {"WYSOKIE", "KRYTYCZNE"}
                 /\ result.metrics.risk_score >= 4
           /\ result.metrics.risk_level \in {"MINIMALNE", "NISKIE", "UMIARKOWANE"}
              => ~evacuation_needed

\* 0.498 m: WYSOKIE without evacuation; then 0.504 m: WYSOKIE with evacuation
C30_Witness ==
    /\ IsFloodScenario(ref)
    /\ ref.locals.max_depth = 49800
    /\ ref.out.value.metrics.risk_level = "WYSOKIE"
    /\ ~ref.out.value.impact_assessment.evacuation_needed
    /\ IsFloodScenario(last)
    /\ last.locals.max_depth = 50400
    /\ last.out.value.metrics.risk_score = 4
    /\ last.out.value.impact_assessment.evacuation_needed

=========================================================================
